---- MODULE Spec2Model ----
(***************************************************************************)
(* Payment-event reconciliation of hmhm0/stripe-backend: the Stripe        *)
(* webhook handlers that move a Supabase `orders` row to paid.             *)
(*                                                                         *)
(* The handler that serves the requests of a behaviour is the variable     *)
(* `variant`, set by Init:                                                 *)
(*   "main"  src/api/stripe-webhook.js                                     *)
(*   "p1a"   src/unnamed/part_001, lines 1-167   (guarded update)          *)
(*   "p1c"   src/unnamed/part_001, lines 410-605 (payment_status variant)  *)
(*   "log"   src/unnamed/part_003                (event log, RPC, refunds) *)
(*   "wh"    src/api/webhook.js                                            *)
(*   "cfA"   src/api/confirm-session.js, 88-153  (identifier backfill)     *)
(*   "cfB"   src/api/confirm-session.js, 188-222 (retrying)                *)
(* SiteSpec serves stripe-webhook.js and confirm-session.js in turn.       *)
(*                                                                         *)
(* The extractors (extractCardBitsFromPI, extractPmDetails) are pure; they *)
(* are applied to drawn inputs in ExtractSpec (variables `arg`, `ret`).    *)
(*                                                                         *)
(* Every `await` of a handler is a scheduling point: a request advances    *)
(* one awaited call at a time, and requests interleave freely.             *)
(***************************************************************************)
EXTENDS Integers, Sequences, FiniteSets, TLC

\* ------------------------------------------------------------- bounds
\* Concurrent deliveries the hosting platform runs.
NumReq == 2
\* Concurrent confirm-session calls of the client.
NumCalls == 1

\* ------------------------------------------------------------ JS values
\* null / undefined of a string-valued field or column.
NULL == "null"
\* null of a numeric field or column (amount_total, total_cents, paid_at).
NoNum == 0 - 1
\* null / undefined where an object is expected.
Absent == [kind |-> "null"]
\* Every falsy id source (undefined, null, "") is the empty string.
Empty == ""
Rep(c, n) == [i \in 1..n |-> c]
Dash == <<"-">>

\* spec.md:149, Scenario A
IdOnes == "11111111-1111-1111-1111-111111111111"
\* an RFC 4122 version-4 id
IdV4 == "22222222-2222-4222-8222-222222222222"
\* a version-4 id that no order row has
IdGone == "33333333-3333-4333-8333-333333333333"
\* spec.md:151, Scenario C
IdBad == "not-a-uuid"

\* The characters of an id (TLC cannot index a string).
Chars(s) ==
  CASE s = IdOnes ->
         Rep("1", 8) \o Dash \o Rep("1", 4) \o Dash \o Rep("1", 4) \o Dash
           \o Rep("1", 4) \o Dash \o Rep("1", 12)
    [] s = IdV4 ->
         Rep("2", 8) \o Dash \o Rep("2", 4) \o Dash \o <<"4">> \o Rep("2", 3)
           \o Dash \o <<"8">> \o Rep("2", 3) \o Dash \o Rep("2", 12)
    [] s = IdGone ->
         Rep("3", 8) \o Dash \o Rep("3", 4) \o Dash \o <<"4">> \o Rep("3", 3)
           \o Dash \o <<"8">> \o Rep("3", 3) \o Dash \o Rep("3", 12)
    [] s = IdBad -> <<"n", "o", "t", "-", "a", "-", "u", "u", "i", "d">>
    [] OTHER -> << >>

HexDigits ==
  {"0", "1", "2", "3", "4", "5", "6", "7", "8", "9",
   "a", "b", "c", "d", "e", "f", "A", "B", "C", "D", "E", "F"}
DashAt == {9, 14, 19, 24}

\* src/api/stripe-webhook.js:36 and part_001:18, part_001:434:
\* /^[0-9a-fA-F]{8}-[0-9a-fA-F]{4}-[0-9a-fA-F]{4}-[0-9a-fA-F]{4}-[0-9a-fA-F]{12}$/
isUuid(s) ==
  LET c == Chars(s)
  IN  /\ Len(c) = 36
      /\ \A i \in 1..36 : IF i \in DashAt THEN c[i] = "-" ELSE c[i] \in HexDigits

\* part_003:23: the third group starts with [1-5], the fourth with [89abAB].
isUuidV(s) ==
  /\ isUuid(s)
  /\ Chars(s)[15] \in {"1", "2", "3", "4", "5"}
  /\ Chars(s)[20] \in {"8", "9", "a", "b", "A", "B"}

\* a || b || ... || null over id sources: the first non-falsy one.
FirstTruthy(seq) ==
  LET idx == {i \in 1..Len(seq) : seq[i] # Empty}
  IN  IF idx = {} THEN Empty
      ELSE seq[CHOOSE i \in idx : \A j \in idx : i <= j]

\* a ?? b on string-valued fields.
Coalesce(a, b) == IF a # NULL THEN a ELSE b
\* !x on a string-valued field.
Falsy(x) == x = NULL \/ x = ""

\* String.prototype.toLowerCase on the status texts a row can hold.
ToLower(s) ==
  CASE s = "PAID" -> "paid"
    [] s = "COMPLETED" -> "completed"
    [] s = "CANCELED" -> "canceled"
    [] s = "PENDING" -> "pending"
    [] OTHER -> s

\* ------------------------------------------------- the provider's objects
Variants == {"main", "p1a", "p1c", "log"}
DirectVariants == {"main", "p1a", "p1c"}

Card(brand, last4) == [kind |-> "object", brand |-> brand, last4 |-> last4]
Charge(id, card) ==
  [kind |-> "object", id |-> id,
   payment_method_details |-> [kind |-> "object", card |-> card]]
Meta(order_id, orderId) == [order_id |-> order_id, orderId |-> orderId]

\* Payment intents as stripe.paymentIntents.retrieve returns them with
\* latest_charge and payment_method expanded.
PaymentIntents ==
  [pi_1 |->
     [kind |-> "object", id |-> "pi_1", metadata |-> Meta(IdOnes, Empty),
      amount |-> 500,
      latest_charge |-> Charge("ch_1", Card("visa", "4242")),
      payment_method |-> Absent],
   pi_2 |->
     [kind |-> "object", id |-> "pi_2", metadata |-> Meta(Empty, IdV4),
      amount |-> 500,
      latest_charge |-> Absent,
      payment_method |-> [kind |-> "object", card |-> Card("amex", "0005")]],
   pi_3 |->
     [kind |-> "object", id |-> "pi_3", metadata |-> Meta(IdBad, Empty),
      amount |-> 300,
      latest_charge |-> Charge("ch_3", Absent),
      payment_method |-> Absent],
   pi_0 |->
     [kind |-> "object", id |-> "pi_0", metadata |-> Meta(IdGone, Empty),
      amount |-> 100,
      latest_charge |-> [kind |-> "string", id |-> "ch_0"],
      payment_method |-> Absent]]

\* Checkout sessions as stripe.checkout.sessions.retrieve returns them with
\* payment_intent expanded.
Sessions ==
  [cs_1 |->
     [kind |-> "object", id |-> "cs_1", metadata |-> Meta(IdOnes, Empty),
      client_reference_id |-> IdV4, amount_total |-> 500,
      payment_intent |-> PaymentIntents.pi_1],
   cs_2 |->
     [kind |-> "object", id |-> "cs_2", metadata |-> Meta(Empty, IdV4),
      client_reference_id |-> Empty, amount_total |-> NoNum,
      payment_intent |-> PaymentIntents.pi_2],
   cs_3 |->
     [kind |-> "object", id |-> "cs_3", metadata |-> Meta(IdBad, Empty),
      client_reference_id |-> Empty, amount_total |-> 300,
      payment_intent |-> PaymentIntents.pi_3],
   cs_0 |->
     [kind |-> "object", id |-> "cs_0", metadata |-> Meta(Empty, Empty),
      client_reference_id |-> Empty, amount_total |-> 100,
      payment_intent |-> Absent],
   cs_5 |->
     [kind |-> "object", id |-> "cs_5", metadata |-> Meta(IdOnes, Empty),
      client_reference_id |-> Empty, amount_total |-> 500,
      payment_intent |-> Absent]]

\* CheckoutTypes with the expired session counted as a payment.
CheckoutTypes_WithExpired ==
  {"checkout.session.completed", "checkout.session.async_payment_succeeded",
   "checkout.session.expired"}

CheckoutTypes ==
  {"checkout.session.completed", "checkout.session.async_payment_succeeded"}
IntentTypes == {"payment_intent.succeeded"}

\* The events the provider delivers: id, type, and the id of data.object.
Events ==
  [evt_cs1 |-> [type |-> "checkout.session.completed", obj |-> "cs_1"],
   evt_pi1 |-> [type |-> "payment_intent.succeeded", obj |-> "pi_1"],
   evt_cs2 |-> [type |-> "checkout.session.async_payment_succeeded",
                obj |-> "cs_2"],
   evt_cs3 |-> [type |-> "checkout.session.completed", obj |-> "cs_3"],
   evt_cs0 |-> [type |-> "checkout.session.completed", obj |-> "cs_0"],
   evt_pi0 |-> [type |-> "payment_intent.succeeded", obj |-> "pi_0"],
   evt_exp |-> [type |-> "checkout.session.expired", obj |-> "cs_1"],
   evt_fail |-> [type |-> "payment_intent.payment_failed", obj |-> "pi_1"],
   evt_oth |-> [type |-> "customer.created", obj |-> "cus_1"]]
EventIds == DOMAIN Events
NoEvent == "none"

\* event.data.object of a payment-confirmed event.
EventObject(e) ==
  IF Events[e].type \in IntentTypes THEN PaymentIntents[Events[e].obj]
  ELSE Sessions[Events[e].obj]

\* ------------------------------------------------------ pure helpers
\* isTerminal with "canceled" forgotten.
isTerminal_NoCanceled(status) ==
  ToLower(status) \in {"paid", "completed"}

\* isTerminal with "paid" forgotten.
isTerminal_NoPaid(status) ==
  ToLower(status) \in {"completed", "canceled"}

\* src/api/stripe-webhook.js:41-45
isTerminal(status) ==
  ToLower(status) \in {"paid", "completed", "canceled"}

\* src/unnamed/part_001:23-32
isTerminalP1a(status, paymentStatus) ==
  \/ ToLower(status) \in {"completed", "canceled", "paid"}
  \/ ToLower(paymentStatus) = "paid"

\* src/unnamed/part_001:439-446
isTerminalP1c(status, paymentStatus) ==
  \/ ToLower(paymentStatus) = "paid"
  \/ ToLower(status) \in {"completed", "canceled"}

\* The terminal test markOrderPaid applies to the row it has read.
RowTerminal(v, row) ==
  CASE v = "main" -> isTerminal(row.status)
    [] v = "p1a" -> isTerminalP1a(row.status, row.payment_status)
    [] OTHER -> isTerminalP1c(row.status, row.payment_status)

\* extractCardBitsFromPI without the fallback to the attached payment method.
extractCardBitsFromPI_NoFallback(pi) ==
  LET ch == IF pi.kind = "object" THEN pi.latest_charge ELSE Absent
      chObj == ch.kind = "object"
      card == IF chObj /\ ch.payment_method_details.kind = "object"
              THEN ch.payment_method_details.card ELSE Absent
  IN  [brand |-> IF card.kind = "object" THEN card.brand ELSE NULL,
       last4 |-> IF card.kind = "object" THEN card.last4 ELSE NULL,
       chargeId |-> IF chObj THEN ch.id ELSE NULL]

\* src/api/stripe-webhook.js:47-65 (the same text at part_001:448-463)
extractCardBitsFromPI(pi) ==
  LET ch == IF pi.kind = "object" THEN pi.latest_charge ELSE Absent
      chObj == ch.kind = "object"
      card == IF chObj /\ ch.payment_method_details.kind = "object"
              THEN ch.payment_method_details.card ELSE Absent
      brand1 == IF card.kind = "object" THEN card.brand ELSE NULL
      last1 == IF card.kind = "object" THEN card.last4 ELSE NULL
      chargeId == IF chObj THEN ch.id ELSE NULL
      pm == IF pi.kind = "object" THEN pi.payment_method ELSE Absent
      fallback == /\ (Falsy(brand1) \/ Falsy(last1))
                  /\ pm.kind = "object"
                  /\ pm.card.kind = "object"
  IN  [brand |-> IF fallback THEN Coalesce(brand1, pm.card.brand) ELSE brand1,
       last4 |-> IF fallback THEN Coalesce(last1, pm.card.last4) ELSE last1,
       chargeId |-> chargeId]

\* src/unnamed/part_001:34-42 (extractCardBits) and part_003:31-39: the latest
\* charge's card only; ch?.id of a bare id string is undefined.
extractCardBits(pi) ==
  LET ch == IF pi.kind = "object" THEN pi.latest_charge ELSE Absent
      chObj == ch.kind = "object"
      card == IF chObj /\ ch.payment_method_details.kind = "object"
              THEN ch.payment_method_details.card ELSE Absent
  IN  [brand |-> IF card.kind = "object" THEN card.brand ELSE NULL,
       last4 |-> IF card.kind = "object" THEN card.last4 ELSE NULL,
       chargeId |-> IF chObj THEN ch.id ELSE NULL]

CardBits(v, pi) ==
  IF v \in {"main", "p1c"} THEN extractCardBitsFromPI(pi) ELSE extractCardBits(pi)

\* pi?.id ?? null
IdOf(o) == IF o.kind = "object" THEN o.id ELSE NULL

\* src/api/stripe-webhook.js:109-113, part_001:92-96, part_001:504-508
ResolveSessionOrderId(session) ==
  FirstTruthy(<<session.metadata.order_id, session.metadata.orderId,
                session.client_reference_id>>)

\* src/api/stripe-webhook.js:148-149, part_001:121-122, part_001:544-545
ResolveIntentOrderId(pi) ==
  FirstTruthy(<<pi.metadata.order_id, pi.metadata.orderId>>)

\* part_003:126-129
readOrderIdFromMeta(metaLike) ==
  FirstTruthy(<<metaLike.metadata.order_id, metaLike.metadata.orderId>>)

\* The order id a payment-confirmed event resolves to in variant v.
ResolveOrderId(v, e) ==
  LET o == EventObject(e)
  IN  IF Events[e].type \in IntentTypes
      THEN (IF v = "log" THEN readOrderIdFromMeta(o) ELSE ResolveIntentOrderId(o))
      ELSE (IF v = "log"
            THEN FirstTruthy(<<readOrderIdFromMeta(o), o.client_reference_id>>)
            ELSE ResolveSessionOrderId(o))

\* ------------------------------------------------------ the orders table
OrderIds == {IdOnes, IdV4}

\* A row as the out-of-scope order-creation flow leaves it.
NewOrder ==
  [status |-> "pending", payment_status |-> "unpaid", paid_at |-> NoNum,
   payment_provider |-> NULL, payment_intent_id |-> NULL, payment_ref |-> NULL,
   charge_id |-> NULL, checkout_session_id |-> NULL,
   payment_method_brand |-> NULL, payment_last4 |-> NULL, total_cents |-> 500]

\* supabase.from("orders").update(fields): the named columns are overwritten.
ApplyUpdate(row, fields) ==
  [c \in DOMAIN row |-> IF c \in DOMAIN fields THEN fields[c] ELSE row[c]]

\* The update without its .eq("id", ...) filter: every row is overwritten.
UpdateById_NoFilter(table, id, fields) ==
  [o \in DOMAIN table |-> ApplyUpdate(table[o], fields)]

\* .update(fields).eq("id", id): the one row with that id is overwritten; no
\* row is added or removed (stripe-webhook.js:95-98, confirm-session.js:84).
UpdateById(table, id, fields) ==
  [table EXCEPT ![id] = ApplyUpdate(@, fields)]

WithTotal(fields, amount) ==
  IF amount # NoNum THEN fields @@ [total_cents |-> amount] ELSE fields

\* src/api/stripe-webhook.js:125-142: the update of a checkout session.
UpdatesSessionMain(full, t) ==
  LET pi == full.payment_intent
      bits == extractCardBitsFromPI(pi)
  IN  WithTotal(
        [status |-> "paid", paid_at |-> t,
         payment_method_brand |-> bits.brand, payment_last4 |-> bits.last4,
         payment_intent_id |-> IdOf(pi), charge_id |-> bits.chargeId,
         checkout_session_id |-> full.id],
        full.amount_total)

\* src/api/stripe-webhook.js:156-165: the update of a payment intent.
UpdatesIntentMain(full, t) ==
  LET bits == extractCardBitsFromPI(full)
  IN  [status |-> "paid", paid_at |-> t,
       payment_method_brand |-> bits.brand, payment_last4 |-> bits.last4,
       payment_intent_id |-> full.id, charge_id |-> bits.chargeId]

\* src/unnamed/part_001:103-115
UpdatesSessionP1a(full) ==
  LET pi == full.payment_intent
      bits == extractCardBits(pi)
  IN  WithTotal(
        [payment_provider |-> "stripe", payment_intent_id |-> IdOf(pi),
         charge_id |-> bits.chargeId, checkout_session_id |-> full.id,
         payment_method_brand |-> bits.brand, payment_last4 |-> bits.last4],
        full.amount_total)

\* src/unnamed/part_001:129-136
UpdatesIntentP1a(full) ==
  LET bits == extractCardBits(full)
  IN  [payment_provider |-> "stripe", payment_intent_id |-> full.id,
       charge_id |-> bits.chargeId,
       payment_method_brand |-> bits.brand, payment_last4 |-> bits.last4]

\* src/unnamed/part_001:64-69: markOrderPaid's payload, built after the read.
PayloadP1a(updates, t) ==
  [status |-> "paid", payment_status |-> "paid", paid_at |-> t] @@ updates

\* src/unnamed/part_001:519-538
UpdatesSessionP1c(full, t) ==
  LET pi == full.payment_intent
      bits == extractCardBitsFromPI(pi)
  IN  WithTotal(
        [payment_status |-> "paid", paid_at |-> t, payment_provider |-> "stripe",
         payment_intent_id |-> IdOf(pi), payment_ref |-> IdOf(pi),
         charge_id |-> bits.chargeId, checkout_session_id |-> full.id,
         payment_method_brand |-> bits.brand, payment_last4 |-> bits.last4],
        full.amount_total)

\* src/unnamed/part_001:552-561
UpdatesIntentP1c(full, t) ==
  LET bits == extractCardBitsFromPI(full)
  IN  [payment_status |-> "paid", paid_at |-> t, payment_provider |-> "stripe",
       payment_intent_id |-> full.id, payment_ref |-> full.id,
       charge_id |-> bits.chargeId]

\* The fields handleCheckoutSession / handlePaymentIntentSucceeded of variant v
\* hand to markOrderPaid for event e, the clock reading t.
Updates(v, e, t) ==
  LET full == EventObject(e)
      isPi == Events[e].type \in IntentTypes
  IN  CASE v = "main" ->
             (IF isPi THEN UpdatesIntentMain(full, t) ELSE UpdatesSessionMain(full, t))
        [] v = "p1a" ->
             (IF isPi THEN UpdatesIntentP1a(full) ELSE UpdatesSessionP1a(full))
        [] OTHER ->
             (IF isPi THEN UpdatesIntentP1c(full, t) ELSE UpdatesSessionP1c(full, t))

\* The row filter of markOrderPaid's update beyond .eq("id", orderId):
\* part_001:75 adds .not("status", "eq", "canceled"); stripe-webhook.js:95-98
\* and part_001:491-494 add nothing.
UpdateMatches(v, row) ==
  IF v = "p1a" THEN row.status # "canceled" ELSE TRUE

\* ------------------------------------------------------------ the state
VARIABLES
  variant,   \* the deployed handler file
  orders,    \* the orders table: order id -> row
  eventLog,  \* stripe_event_logs: the event ids recorded
  now,       \* the wall clock at its latest reading
  pc,        \* per request: the awaited call it is suspended on
  rq,        \* per request: method, signature validity, the verified event
  oid,       \* per request: the resolved order id
  upd,       \* per request: the fields handed to the update or the RPC
  eff,       \* per request: the external calls it has issued
  resp,      \* per request: the HTTP response sent
  cq,        \* per confirm-session request: session id asked for, judgement
  arg,       \* a helper called on its own: the function and its argument
  ret        \* a helper called on its own: what it returned

vars ==
  <<variant, orders, eventLog, now, pc, rq, oid, upd, eff, resp, cq, arg, ret>>

Req == 1..NumReq
Methods == {"POST", "GET"}

\* logResult: what logStripeEventOnce returned (part_003:270), "" before.
\* retrieveThrew: whether the provider retrieval of the request threw.
\* selectFailed: whether the latest lookup select of the request returned an
\* error object.
\* recalcFailed: whether the recalc_order_totals call of the request failed.
NoEffects ==
  [logInserts |-> 0, retrievals |-> 0, reads |-> 0, updates |-> 0,
   applied |-> 0, rpcs |-> 0, logResult |-> "", retrieveThrew |-> FALSE,
   selectFailed |-> FALSE, recalcFailed |-> FALSE]
NoResp == [status |-> 0, body |-> [none |-> TRUE]]
NoFields == [none |-> TRUE]
\* The body of res.status(n).end(...) / .send(...): plain text, no JSON keys.
TextBody == [text |-> TRUE]
\* No helper is called on its own.
NoCall == [fn |-> "none", value |-> Absent]

Has(body, k) == k \in DOMAIN body
Is(body, k, val) == k \in DOMAIN body /\ body[k] = val

\* What a retrieved checkout session says about its payment: session.status,
\* session.payment_status and the status of its expanded payment intent.
View(status, payment_status, piStatus) ==
  [status |-> status, payment_status |-> payment_status, piStatus |-> piStatus]
NoView == View(NULL, NULL, NULL)
ViewOpen == View("open", "unpaid", "requires_payment_method")
\* Checkout completed with a delayed payment method still processing.
ViewProcessing == View("complete", "unpaid", "processing")
\* The intent has succeeded, the session does not say paid yet.
ViewIntentFirst == View("open", "unpaid", "succeeded")
ViewPaid == View("complete", "paid", "succeeded")
\* What a retrieval can return: the provider is eventually consistent, so a
\* later retrieval may still return an earlier view.
Views == {ViewOpen, ViewProcessing, ViewIntentFirst, ViewPaid}

\* The sessions a confirm-session request can ask for.
ConfirmSessions == {"cs_1", "cs_2", "cs_3"}
NoConfirm == [sessionId |-> Empty, paid |-> FALSE, last |-> NoView]

\* The statuses an order row can have before any delivery: created (pending)
\* or fulfilled by the out-of-scope back office (completed).
InitStatuses == {"pending", "completed"}

InitWith(vs) ==
  /\ variant \in vs
  /\ orders \in {[o \in OrderIds |->
                    IF o = IdOnes THEN [NewOrder EXCEPT !.status = st]
                    ELSE NewOrder] : st \in InitStatuses}
  /\ eventLog = {}
  /\ now = 0
  /\ pc = [r \in Req |-> "idle"]
  /\ rq = [r \in Req |-> [method |-> "none", sigOk |-> FALSE, ev |-> NoEvent]]
  /\ oid = [r \in Req |-> Empty]
  /\ upd = [r \in Req |-> NoFields]
  /\ eff = [r \in Req |-> NoEffects]
  /\ resp = [r \in Req |-> NoResp]
  /\ cq = [r \in Req |-> NoConfirm]
  /\ arg = NoCall
  /\ ret = NoFields

\* ------------------------------------------------------ handler pieces
\* AfterVerify with the method test left out.
AfterVerify_AnyMethod(v, method, sigOk) ==
  IF ~sigOk THEN "400"
  ELSE IF v = "log" THEN "log"
  ELSE "dispatch"

\* AfterVerify with the signature test left out.
AfterVerify_NoSignature(v, method, sigOk) ==
  IF method # "POST" THEN "405"
  ELSE IF v = "log" THEN "log"
  ELSE "dispatch"

\* src/api/stripe-webhook.js:173-183 (part_001:141-151, 568-578;
\* part_003:257-273): the method test, then constructEvent in its try/catch.
AfterVerify(v, method, sigOk) ==
  IF method # "POST" THEN "405"
  ELSE IF ~sigOk THEN "400"
  ELSE IF v = "log" THEN "log"
  ELSE "dispatch"

\* res.json(...) of the handler: stripe-webhook.js:191,197 and part_001:586,591
\* spread the result after received:true; part_001:157,159 and part_003:280,284
\* send the result as it is.
Json(v, result) ==
  IF v \in {"main", "p1c"} THEN result @@ [received |-> TRUE] ELSE result

\* The HTTP status of a markOrderPaid result: every result goes through
\* res.json, which answers 200 (stripe-webhook.js:190-191, 196-197).
ResultStatus(result) == 200

\* markOrderPaid's result for an id that is not a UUID
\* (stripe-webhook.js:68-71, part_001:45-48, part_001:466-469).
InvalidIdResult(v) ==
  IF v = "p1a" THEN [ignored |-> TRUE] ELSE [ok |-> TRUE, ignored |-> TRUE]

\* The answer to a verified event that is not payment-confirmed
\* (stripe-webhook.js:200-207, part_001:160-161, 593-599, part_003:293-297).
OtherEventBody(v, type) ==
  IF v = "log" /\ type = "checkout.session.expired"
  THEN [ok |-> TRUE, received |-> TRUE, action |-> "noop"]
  ELSE [received |-> TRUE]

\* Whether the type handler gives up before its first awaited call:
\* stripe-webhook.js:115-118, 150 test only emptiness; part_003:137, 174 also
\* validate the id.
IgnoredEarly(v, id) ==
  IF v = "log" THEN id = Empty \/ ~isUuidV(id) ELSE id = Empty

EarlyIgnoredBody(v) ==
  IF v = "log" THEN [ignored |-> TRUE, reason |-> "missing_or_invalid_order_id"]
  ELSE Json(v, [ignored |-> TRUE])

Reply(r, status, body) ==
  /\ resp' = [resp EXCEPT ![r] = [status |-> status, body |-> body]]
  /\ pc' = [pc EXCEPT ![r] = "done"]
  /\ upd' = [upd EXCEPT ![r] = NoFields]

Issue(r, field) == eff' = [eff EXCEPT ![r][field] = @ + 1]

\* new Date(): every reading of the clock is later than the one before it.
\* (Two readings within the same millisecond are not modelled: equal
\* timestamps can only hide a rewritten paid_at, never produce one.)
ClockReadings == {now + 1}

\* ------------------------------------------ refunds (part_003:204-253)
\* The payment intents stripe.paymentIntents.retrieve can return to
\* handleRefundEvent: those of PaymentIntents and one whose metadata.order_id
\* passes the validation of part_003:23.
RefundIntents ==
  [i \in DOMAIN PaymentIntents \cup {"pi_4"} |->
     IF i = "pi_4"
     THEN [kind |-> "object", id |-> "pi_4", metadata |-> Meta(IdV4, Empty),
           amount |-> 500,
           latest_charge |-> Charge("ch_4", Card("visa", "4242")),
           payment_method |-> Absent]
     ELSE PaymentIntents[i]]

\* The charges stripe.charges.retrieve can return: amount is what was
\* charged, amount_refunded what has been refunded of it so far.
RefundCharges ==
  [ch_4 |-> [kind |-> "object", id |-> "ch_4", charge |-> NULL,
             payment_intent |-> "pi_4", amount |-> 500, amount_refunded |-> 200],
   ch_5 |-> [kind |-> "object", id |-> "ch_5", charge |-> NULL,
             payment_intent |-> NULL, amount |-> 100, amount_refunded |-> 100]]

\* The refunds of the provider: amount is the amount of the refund.
Refunds ==
  [re_4 |-> [kind |-> "object", id |-> "re_4", charge |-> "ch_4",
             payment_intent |-> "pi_4", amount |-> 200,
             amount_refunded |-> NoNum],
   re_1 |-> [kind |-> "object", id |-> "re_1", charge |-> "ch_1",
             payment_intent |-> "pi_1", amount |-> 500,
             amount_refunded |-> NoNum],
   re_6 |-> [kind |-> "object", id |-> "re_6", charge |-> "ch_4",
             payment_intent |-> NULL, amount |-> 200,
             amount_refunded |-> NoNum],
   re_5 |-> [kind |-> "object", id |-> "re_5", charge |-> "ch_5",
             payment_intent |-> NULL, amount |-> 100,
             amount_refunded |-> NoNum]]

\* part_003:287-291: the event types handed to handleRefundEvent.
RefundTypes == {"charge.refunded", "refund.succeeded", "charge.refund.updated"}

\* The refund events the provider delivers; data.object of charge.refunded is
\* the charge, of the other two the refund.
RefundEvents ==
  [evt_re4 |-> [type |-> "refund.succeeded", obj |-> "re_4"],
   evt_cr4 |-> [type |-> "charge.refunded", obj |-> "ch_4"],
   evt_re1 |-> [type |-> "refund.succeeded", obj |-> "re_1"],
   evt_re6 |-> [type |-> "charge.refund.updated", obj |-> "re_6"],
   evt_re5 |-> [type |-> "charge.refund.updated", obj |-> "re_5"]]
RefundEventIds == DOMAIN RefundEvents

RefundObject(e) ==
  IF RefundEvents[e].type = "charge.refunded"
  THEN RefundCharges[RefundEvents[e].obj]
  ELSE Refunds[RefundEvents[e].obj]

\* part_003:207: refundObj?.charge ?? refundObj?.id ?? null
RefundChargeId(refundObj) == Coalesce(refundObj.charge, refundObj.id)

\* part_003:209-213 and 222: the payment intent id of the refund, taken from
\* the retrieved charge when the refund object names none.
RefundIntentId(refundObj) ==
  IF ~Falsy(refundObj.payment_intent) THEN refundObj.payment_intent
  ELSE IF RefundChargeId(refundObj) \in DOMAIN RefundCharges
  THEN RefundCharges[RefundChargeId(refundObj)].payment_intent
  ELSE NULL

\* part_003:235-239: cents(refundObj?.amount) ?? cents(piFull?.amount) (no
\* modelled intent has an amount_received of its own).
RefundAmount(refundObj, piFull) ==
  IF refundObj.amount # NoNum THEN refundObj.amount ELSE piFull.amount

\* part_003:244-250 with 104-110: the parameters of mark_order_refunded (the
\* currency and the reason are left out: no modelled column holds them).
RefundParams(orderId, refundObj, piFull) ==
  [p_order_id |-> orderId,
   p_charge_id |-> RefundChargeId(refundObj),
   p_amount_cents |-> RefundAmount(refundObj, piFull)]

\* part_003:230-233
RefundIgnoredBody == [ignored |-> TRUE, reason |-> "refund_without_order_id"]

\* handleRefundEvent up to its first awaited call (part_003:204-227): the
\* intent is retrieved when the refund names one, otherwise the charge.
RefundDispatch(r, e, logResult) ==
  LET refundObj == RefundObject(e)
  IN  /\ pc' = [pc EXCEPT ![r] =
                  IF ~Falsy(refundObj.payment_intent) THEN "rf_intent"
                  ELSE "rf_charge"]
      /\ eff' = [eff EXCEPT ![r].retrievals = @ + 1,
                            ![r].logResult = logResult]
      /\ UNCHANGED <<oid, resp, upd>>

\* The switch on event.type, run to the type handler's first awaited call
\* (stripe-webhook.js:185-208 with 107-121 and 147-152; part_003:275-298).
DispatchLogged(r, v, e, logResult) ==
  IF e \in RefundEventIds THEN RefundDispatch(r, e, logResult)
  ELSE
  LET type == Events[e].type
      id == ResolveOrderId(v, e)
  IN  IF type \in CheckoutTypes \cup IntentTypes
      THEN IF IgnoredEarly(v, id)
           THEN /\ Reply(r, 200, EarlyIgnoredBody(v))
                /\ eff' = [eff EXCEPT ![r].logResult = logResult]
                /\ UNCHANGED oid
           ELSE /\ pc' = [pc EXCEPT ![r] = "retrieve"]
                /\ oid' = [oid EXCEPT ![r] = id]
                /\ eff' = [eff EXCEPT ![r].retrievals = @ + 1,
                                      ![r].logResult = logResult]
                /\ UNCHANGED <<resp, upd>>
      ELSE /\ Reply(r, 200, OtherEventBody(v, type))
           /\ eff' = [eff EXCEPT ![r].logResult = logResult]
           /\ UNCHANGED oid

Dispatch(r, v, e) == DispatchLogged(r, v, e, "")

\* part_003:146-159 and 179-195: the parameters of the mark_order_paid RPC.
\* (The currency parameter is left out: no modelled column holds it.)
RpcParams(e) ==
  LET full == EventObject(e)
      isPi == Events[e].type \in IntentTypes
      pi == IF isPi THEN full ELSE full.payment_intent
      bits == extractCardBits(pi)
  IN  [p_checkout_session_id |-> IF isPi THEN NULL ELSE full.id,
       p_payment_intent_id |-> IdOf(pi),
       p_charge_id |-> bits.chargeId,
       p_amount_cents |-> IF isPi THEN full.amount ELSE full.amount_total]

\* The database function mark_order_paid (its SQL is not in src/): the
\* transition of spec.md section 4.5, applied by the database at time t.
MarkOrderPaidSql(row, p, t) ==
  IF row.status \in {"paid", "completed", "canceled"} \/ row.payment_status = "paid"
  THEN row
  ELSE [row EXCEPT
          !.status = "paid", !.payment_status = "paid", !.paid_at = t,
          !.checkout_session_id = Coalesce(p.p_checkout_session_id, @),
          !.payment_intent_id = Coalesce(p.p_payment_intent_id, @),
          !.charge_id = Coalesce(p.p_charge_id, @)]

\* ------------------------------------------------------------- actions
\* A delivery arrives: the method test, signature verification and, for the
\* variants without an event log, the switch up to the first awaited call.
ReceiveFrom(r, ids) ==
  /\ pc[r] = "idle"
  /\ \A q \in Req : q < r => pc[q] # "idle"
  /\ \E m \in Methods, sigOk \in BOOLEAN, e \in ids :
       LET step == AfterVerify(variant, m, sigOk)
       IN  /\ rq' = [rq EXCEPT ![r] =
                       [method |-> m, sigOk |-> m = "POST" /\ sigOk,
                        ev |-> IF step \in {"log", "dispatch"} THEN e ELSE NoEvent]]
           /\ CASE step = "405" ->
                     Reply(r, 405, TextBody) /\ UNCHANGED <<oid, eff>>
                [] step = "400" ->
                     Reply(r, 400, TextBody) /\ UNCHANGED <<oid, eff>>
                [] step = "log" ->
                     /\ pc' = [pc EXCEPT ![r] = "log"]
                     /\ Issue(r, "logInserts")
                     /\ UNCHANGED <<oid, resp, upd>>
                [] OTHER -> Dispatch(r, variant, e)
  /\ UNCHANGED <<arg, ret, cq, variant, orders, eventLog, now>>

\* A delivery of a payment, session or other event arrives.
Receive(r) == ReceiveFrom(r, EventIds)

\* A delivery of a refund event arrives.
RefundReceive(r) == ReceiveFrom(r, RefundEventIds)

\* part_003:42-73 with 270-273: the insert into stripe_event_logs returns.
\* outcome: "db" (the table decides: inserted, or rejected as a duplicate of
\* event_id), "relation" (the table does not exist), "other" (any other
\* error object), "throw" (the client throws).
LogOutcomes == {"db", "relation", "other", "throw"}

\* logStripeEventOnce with every insert error taken for a duplicate.
logStripeEventOnce_ErrorBlocks(outcome, e, log) ==
  CASE outcome = "throw" -> "loggingDisabled"
    [] outcome = "relation" -> "loggingDisabled"
    [] outcome = "other" -> "alreadyProcessed"
    [] OTHER -> IF e \in log THEN "alreadyProcessed" ELSE "ok"

\* logStripeEventOnce with the duplicate test left out.
logStripeEventOnce_NeverDuplicate(outcome, e, log) ==
  CASE outcome = "throw" -> "loggingDisabled"
    [] outcome = "relation" -> "loggingDisabled"
    [] outcome = "other" -> "error"
    [] OTHER -> "ok"

\* logStripeEventOnce (part_003:42-73): its result for an insert outcome, the
\* unique constraint on event_id rejecting an id the table holds.
logStripeEventOnce(outcome, e, log) ==
  CASE outcome = "throw" -> "loggingDisabled"
    [] outcome = "relation" -> "loggingDisabled"
    [] outcome = "other" -> "error"
    [] OTHER -> IF e \in log THEN "alreadyProcessed" ELSE "ok"

LogInsert(r) ==
  /\ pc[r] = "log"
  /\ \E outcome \in LogOutcomes :
       LET e == rq[r].ev
           logResult == logStripeEventOnce(outcome, e, eventLog)
       IN  /\ eventLog' = IF outcome = "db" THEN eventLog \cup {e} ELSE eventLog
           /\ IF logResult = "alreadyProcessed"
              THEN /\ Reply(r, 200, [ok |-> TRUE, reason |-> "duplicate_event"])
                   /\ eff' = [eff EXCEPT ![r].logResult = logResult]
                   /\ UNCHANGED oid
              ELSE DispatchLogged(r, variant, e, logResult)
  /\ UNCHANGED <<arg, ret, cq, variant, orders, now, rq>>

\* HandlerCatch answering as if the event had been ignored.
HandlerCatch_Swallowed(v) ==
  [status |-> 200, body |-> [received |-> TRUE, ignored |-> TRUE]]

\* The catch of the handler's try around the switch
\* (stripe-webhook.js:209-212, part_001:163-166, 601-604, part_003:299-302).
HandlerCatch(v) == [status |-> 500, body |-> TextBody]

\* stripe.checkout.sessions.retrieve / stripe.paymentIntents.retrieve returns
\* or throws (stripe-webhook.js:121-144, 152-167; part_003:142-159, 179-195).
Retrieve(r) ==
  /\ pc[r] = "retrieve"
  /\ \E ok \in BOOLEAN, t \in ClockReadings :
       IF ~ok
       THEN /\ Reply(r, HandlerCatch(variant).status, HandlerCatch(variant).body)
            /\ eff' = [eff EXCEPT ![r].retrieveThrew = TRUE]
            /\ UNCHANGED now
       ELSE IF variant = "log"
       THEN /\ upd' = [upd EXCEPT ![r] = RpcParams(rq[r].ev)]
            /\ pc' = [pc EXCEPT ![r] = "rpc"]
            /\ Issue(r, "rpcs")
            /\ UNCHANGED <<resp, now>>
       ELSE /\ now' = IF variant = "p1a" THEN now ELSE t
            /\ IF ~isUuid(oid[r])
               THEN /\ Reply(r, ResultStatus(InvalidIdResult(variant)),
                             Json(variant, InvalidIdResult(variant)))
                    /\ UNCHANGED eff
               ELSE /\ upd' = [upd EXCEPT ![r] = Updates(variant, rq[r].ev, t)]
                    /\ pc' = [pc EXCEPT ![r] = "read"]
                    /\ Issue(r, "reads")
                    /\ UNCHANGED resp
  /\ UNCHANGED <<arg, ret, cq, variant, orders, eventLog, rq, oid>>

\* ReadResult with the missing-row test left out.
ReadResult_NoNotFound(v, failed, found, row) ==
  IF failed THEN [ok |-> FALSE, reason |-> "read_failed"]
  ELSE IF RowTerminal(v, row) THEN [ok |-> TRUE, reason |-> "already_terminal"]
  ELSE [goon |-> TRUE]

\* markOrderPaid's result after its select has returned, "" when it goes on
\* to the update (stripe-webhook.js:80-93, part_001:56-62, 477-489).
ReadResult(v, failed, found, row) ==
  IF failed THEN [ok |-> FALSE, reason |-> "read_failed"]
  ELSE IF ~found THEN [ok |-> TRUE, reason |-> "not_found"]
  ELSE IF RowTerminal(v, row) THEN [ok |-> TRUE, reason |-> "already_terminal"]
  ELSE [goon |-> TRUE]

\* The select of markOrderPaid returns (stripe-webhook.js:74-98).
Read(r) ==
  /\ pc[r] = "read"
  /\ \E failed \in BOOLEAN, t \in ClockReadings :
       LET found == oid[r] \in DOMAIN orders
           row == IF found THEN orders[oid[r]] ELSE NewOrder
           res == ReadResult(variant, failed, found, row)
       IN  IF Has(res, "goon")
           THEN /\ pc' = [pc EXCEPT ![r] = "update"]
                /\ upd' = [upd EXCEPT ![r] =
                             IF variant = "p1a" THEN PayloadP1a(@, t) ELSE @]
                /\ now' = IF variant = "p1a" THEN t ELSE now
                /\ Issue(r, "updates")
                /\ UNCHANGED resp
           ELSE /\ Reply(r, ResultStatus(res), Json(variant, res))
                /\ UNCHANGED <<eff, now>>
  /\ UNCHANGED <<arg, ret, cq, variant, orders, eventLog, rq, oid>>

\* The update of markOrderPaid is applied by the database and returns
\* (stripe-webhook.js:95-104, part_001:71-80, 491-500).
Update(r) ==
  /\ pc[r] = "update"
  /\ \E failed \in BOOLEAN :
       LET hit == /\ ~failed
                  /\ oid[r] \in DOMAIN orders
                  /\ UpdateMatches(variant, orders[oid[r]])
       IN  /\ orders' = IF hit
                        THEN UpdateById(orders, oid[r], upd[r])
                        ELSE orders
           /\ IF failed
              THEN /\ Reply(r, ResultStatus([ok |-> FALSE, reason |-> "update_failed"]),
                            Json(variant, [ok |-> FALSE, reason |-> "update_failed"]))
                   /\ UNCHANGED eff
              ELSE IF variant = "p1a"
              THEN /\ pc' = [pc EXCEPT ![r] = "recalc"]
                   /\ eff' = [eff EXCEPT ![r].applied = IF hit THEN @ + 1 ELSE @,
                                         ![r].rpcs = @ + 1]
                   /\ UNCHANGED <<resp, upd>>
              ELSE /\ Reply(r, ResultStatus([ok |-> TRUE]), Json(variant, [ok |-> TRUE]))
                   /\ eff' = [eff EXCEPT ![r].applied = IF hit THEN @ + 1 ELSE @]
  /\ UNCHANGED <<arg, ret, cq, variant, eventLog, now, rq, oid>>

\* What the recalc_order_totals RPC can do: return without error, return an
\* error object, throw.
RecalcOutcomes == {"ok", "error", "throw"}

\* markOrderPaid failing when recalc_order_totals fails.
RecalcResult_FailurePropagates(outcome) ==
  IF outcome = "ok" THEN [ok |-> TRUE]
  ELSE [ok |-> FALSE, reason |-> "recalc_failed"]

\* part_001:82-88: what markOrderPaid returns after the recalc call: the
\* error object is not looked at, a throw is caught and logged.
RecalcResult(outcome) == [ok |-> TRUE]

\* part_001:82-88: recalc_order_totals returns, fails or throws.  (The SQL of
\* recalc_order_totals is not in src/; it is taken to leave the modelled
\* columns alone.)
Recalc(r) ==
  /\ pc[r] = "recalc"
  /\ \E outcome \in RecalcOutcomes :
       /\ Reply(r, 200, Json(variant, RecalcResult(outcome)))
       /\ eff' = [eff EXCEPT ![r].recalcFailed = outcome # "ok"]
  /\ UNCHANGED <<arg, ret, cq, variant, orders, eventLog, now, rq, oid>>

\* part_003:84-93 with 152-168, 188-201, 299-302: the mark_order_paid RPC
\* returns; an error object is thrown and becomes HTTP 500.
Rpc(r) ==
  /\ pc[r] = "rpc"
  /\ \E failed \in BOOLEAN, t \in ClockReadings :
       IF failed
       THEN Reply(r, 500, TextBody) /\ UNCHANGED <<orders, now>>
       ELSE /\ now' = t
            /\ orders' = IF oid[r] \in DOMAIN orders
                         THEN [orders EXCEPT ![oid[r]] =
                                 MarkOrderPaidSql(@, upd[r], t)]
                         ELSE orders
            /\ Reply(r, 200, [ok |-> TRUE, orderId |-> oid[r],
                              payment_method |-> extractCardBits(
                                IF Events[rq[r].ev].type \in IntentTypes
                                THEN EventObject(rq[r].ev)
                                ELSE EventObject(rq[r].ev).payment_intent)])
  /\ UNCHANGED <<arg, ret, cq, variant, eventLog, rq, oid, eff>>

\* The database function mark_order_refunded (its SQL is not in src/): the
\* refund path of the transition of spec.md section 4.5.
MarkOrderRefundedSql(row, p) == [row EXCEPT !.status = "refunded"]

\* part_003:216-227: stripe.charges.retrieve returns or throws; the intent is
\* retrieved next when the charge names one.
RefundCharge(r) ==
  /\ pc[r] = "rf_charge"
  /\ \E ok \in BOOLEAN :
       IF ~ok
       THEN /\ Reply(r, HandlerCatch(variant).status, HandlerCatch(variant).body)
            /\ eff' = [eff EXCEPT ![r].retrieveThrew = TRUE]
       ELSE IF ~Falsy(RefundIntentId(RefundObject(rq[r].ev)))
       THEN /\ pc' = [pc EXCEPT ![r] = "rf_intent"]
            /\ Issue(r, "retrievals")
            /\ UNCHANGED <<resp, upd>>
       ELSE /\ Reply(r, 200, RefundIgnoredBody)
            /\ UNCHANGED eff
  /\ UNCHANGED <<arg, ret, cq, variant, orders, eventLog, now, rq, oid>>

\* part_003:214-250: stripe.paymentIntents.retrieve returns or throws; the
\* order id is read from the intent's metadata and validated, then
\* mark_order_refunded is called.
RefundIntent(r) ==
  /\ pc[r] = "rf_intent"
  /\ \E ok \in BOOLEAN :
       LET refundObj == RefundObject(rq[r].ev)
           piFull == RefundIntents[RefundIntentId(refundObj)]
           orderId == readOrderIdFromMeta(piFull)
       IN  IF ~ok
           THEN /\ Reply(r, HandlerCatch(variant).status,
                         HandlerCatch(variant).body)
                /\ eff' = [eff EXCEPT ![r].retrieveThrew = TRUE]
                /\ UNCHANGED oid
           ELSE IF orderId = Empty \/ ~isUuidV(orderId)
           THEN /\ Reply(r, 200, RefundIgnoredBody)
                /\ UNCHANGED <<oid, eff>>
           ELSE /\ oid' = [oid EXCEPT ![r] = orderId]
                /\ upd' = [upd EXCEPT ![r] =
                             RefundParams(orderId, refundObj, piFull)]
                /\ pc' = [pc EXCEPT ![r] = "rf_rpc"]
                /\ Issue(r, "rpcs")
                /\ UNCHANGED resp
  /\ UNCHANGED <<arg, ret, cq, variant, orders, eventLog, now, rq>>

\* What the mark_order_refunded RPC can report: success, an error saying that
\* the function does not exist, any other error.
RefundRpcOutcomes == {"ok", "missing", "error"}

\* part_003:97-123: the result of callMarkOrderRefunded, or that it threw.
RefundRpcResult(outcome) ==
  CASE outcome = "ok" -> [ok |-> TRUE]
    [] outcome = "missing" ->
         [skipped |-> TRUE, reason |-> "mark_order_refunded not deployed"]
    [] OTHER -> [threw |-> TRUE]

\* part_003:104-122 with 252 and 299-302: the mark_order_refunded RPC returns.
RefundRpc(r) ==
  /\ pc[r] = "rf_rpc"
  /\ \E outcome \in RefundRpcOutcomes :
       LET result == RefundRpcResult(outcome)
       IN  /\ orders' = IF outcome = "ok" /\ oid[r] \in DOMAIN orders
                        THEN [orders EXCEPT ![oid[r]] =
                                MarkOrderRefundedSql(@, upd[r])]
                        ELSE orders
           /\ IF Has(result, "threw")
              THEN Reply(r, HandlerCatch(variant).status,
                         HandlerCatch(variant).body)
              ELSE Reply(r, 200, [ok |-> TRUE, orderId |-> oid[r],
                                  refunded |-> TRUE, rpc |-> result])
  /\ UNCHANGED <<arg, ret, cq, variant, eventLog, now, rq, oid, eff>>

\* The out-of-scope cancellation flow (spec.md section 4.5): pending -> canceled.
Cancel(o) ==
  /\ orders[o].status = "pending"
  /\ orders[o].payment_status # "paid"
  /\ orders' = [orders EXCEPT ![o].status = "canceled"]
  /\ UNCHANGED <<arg, ret, cq, variant, eventLog, now,
                 pc, rq, oid, upd, eff, resp>>

\* Deliveries handled one after the other: a delivery arrives only when no
\* other is being handled.
ReceiveSeq(r) ==
  /\ \A q \in Req : pc[q] \in {"idle", "done"}
  /\ Receive(r)

\* --------------------------------------------- src/api/confirm-session.js
\* The two handlers of the file: "cfA" (lines 88-153, with the identifier
\* backfill) and "cfB" (lines 188-222, the retrying one).
ConfirmVariants == {"cfA", "cfB"}
\* The requests that are confirm-session calls when such a handler is deployed.
Calls == 1..NumCalls
ConfirmMethods == {"GET", "POST", "PUT"}

\* confirm-session.js:37-41
isPaid(session, pi) ==
  \/ ToLower(session.payment_status) = "paid"
  \/ (pi.kind = "object" /\ ToLower(pi.status) = "succeeded")

\* The expanded payment intent of a retrieved session, with its status
\* (confirm-session.js:108-110, 174-175).
IntentOf(session, view) ==
  IF session.payment_intent.kind = "object"
  THEN [kind |-> "object", id |-> session.payment_intent.id,
        status |-> view.piStatus]
  ELSE Absent

\* confirm-session.js:167-186: what fetchAndJudge makes of a retrieved session.
fetchAndJudge(session, view) ==
  LET pi == IntentOf(session, view)
      piStatus == IF pi.kind = "object" THEN pi.status ELSE NULL
  IN  [paid |-> \/ view.payment_status = "paid"
                \/ view.status = "complete"
                \/ piStatus = "succeeded",
       orderId |-> FirstTruthy(<<session.client_reference_id,
                                 session.metadata.order_id>>),
       status |-> view.status,
       paymentStatus |-> view.payment_status,
       piStatus |-> piStatus]

\* The retry schedule with a fifth attempt.
Attempts_Five == <<0, 400, 900, 1500, 2500>>

\* confirm-session.js:205: the delays before the attempts, in ms.
Attempts == <<0, 400, 900, 1500>>

\* confirm-session.js:115-118: the order id the first handler derives.
ConfirmOrderId(session) ==
  FirstTruthy(<<session.metadata.order_id, session.client_reference_id>>)

\* backfillStripeIds with the status patched too.
BackfillPatch_WithStatus(existing, checkoutSessionId, paymentIntentId) ==
  [k \in {"status"} |-> "paid"]

\* confirm-session.js:79-81: the patch of backfillStripeIds.
BackfillPatch(existing, checkoutSessionId, paymentIntentId) ==
  LET keys ==
        {k \in {"checkout_session_id", "payment_intent_id"} :
           IF k = "checkout_session_id"
           THEN ~Falsy(checkoutSessionId) /\ Falsy(existing.checkout_session_id)
           ELSE ~Falsy(paymentIntentId) /\ Falsy(existing.payment_intent_id)}
  IN  [k \in keys |->
         IF k = "checkout_session_id" THEN checkoutSessionId ELSE paymentIntentId]

\* orderId || null in a response body.
OrNull(id) == IF id = Empty THEN NULL ELSE id

\* confirm-session.js:137-148: the answer of the first handler.
ConfirmBodyA(r, orderId) ==
  LET session == Sessions[cq[r].sessionId]
      pi == IntentOf(session, cq[r].last)
  IN  [ok |-> TRUE, paid |-> cq[r].paid, orderId |-> OrNull(orderId),
       checkoutSessionId |-> session.id, paymentIntentId |-> IdOf(pi),
       amountCents |-> session.amount_total,
       sessionPaymentStatus |-> cq[r].last.payment_status,
       paymentIntentStatus |-> cq[r].last.piStatus]

\* confirm-session.js:212, 217: the answer of the retrying handler; the spread
\* of `last` comes after paid and orderId.
ConfirmBodyB(last) ==
  [ok |-> TRUE, paid |-> last.paid, orderId |-> OrNull(last.orderId),
   status |-> last.status, paymentStatus |-> last.paymentStatus,
   piStatus |-> last.piStatus]

\* confirm-session.js:149-152 and 218-221: the catch of either handler.
ConfirmCatch(v) ==
  IF v = "cfA" THEN [ok |-> FALSE, error |-> "server_error"]
  ELSE [ok |-> FALSE, paid |-> FALSE, error |-> "server_error"]

\* confirm-session.js:100 and 201: the answer to a request without a
\* session id.
MissingIdBody(v) ==
  IF v = "cfA" THEN [ok |-> FALSE, error |-> "missing_session_id"]
  ELSE [ok |-> FALSE, paid |-> FALSE, error |-> "missing_session_id"]

\* A confirm-session call for one of the sessions sids, or without a session
\* id, arrives (confirm-session.js:88-106, 188-210); the client may call
\* again once its previous call has been answered.
ConfirmReceiveFrom(r, sids) ==
  /\ pc[r] \in {"idle", "done"}
  /\ \A q \in Req : q < r => pc[q] # "idle"
  /\ \E m \in ConfirmMethods, sid \in sids \cup {Empty} :
       LET answer == IF m \notin {"GET", "POST"}
                     THEN [status |-> 405, body |-> TextBody]
                     ELSE IF sid = Empty
                     THEN [status |-> 400, body |-> MissingIdBody(variant)]
                     ELSE NoResp
           goes == answer = NoResp
       IN  /\ rq' = [rq EXCEPT ![r] =
                       [method |-> m, sigOk |-> FALSE, ev |-> NoEvent]]
           /\ resp' = [resp EXCEPT ![r] = answer]
           /\ pc' = [pc EXCEPT ![r] = IF goes THEN "cf_retrieve" ELSE "done"]
           /\ cq' = [cq EXCEPT ![r] =
                       IF goes THEN [NoConfirm EXCEPT !.sessionId = sid]
                       ELSE NoConfirm]
           /\ eff' = [eff EXCEPT ![r] =
                        IF goes THEN [NoEffects EXCEPT !.retrievals = 1]
                        ELSE NoEffects]
           /\ oid' = [oid EXCEPT ![r] = Empty]
           /\ upd' = [upd EXCEPT ![r] = NoFields]
  /\ UNCHANGED <<arg, ret, variant, orders, eventLog, now>>

ConfirmReceive(r) == ConfirmReceiveFrom(r, ConfirmSessions)

\* The order the first handler goes on with after it has an order id, or its
\* answer when it has none (confirm-session.js:129-148).
ConfirmBackfillOrReply(r, orderId, failed) ==
  IF orderId # Empty
  THEN /\ oid' = [oid EXCEPT ![r] = orderId]
       /\ pc' = [pc EXCEPT ![r] = "cf_bf_read"]
       /\ eff' = [eff EXCEPT ![r].reads = @ + 1, ![r].selectFailed = failed]
       /\ UNCHANGED <<resp, upd>>
  ELSE /\ Reply(r, 200, ConfirmBodyA(r, Empty))
       /\ eff' = [eff EXCEPT ![r].selectFailed = failed]
       /\ UNCHANGED oid

\* stripe.checkout.sessions.retrieve returns or throws
\* (confirm-session.js:104-134 and 208-217 with 167-186).
ConfirmRetrieve(r) ==
  /\ pc[r] = "cf_retrieve"
  /\ \E ok \in BOOLEAN, view \in Views :
       LET session == Sessions[cq[r].sessionId]
       IN  IF ~ok
           THEN /\ Reply(r, 500, ConfirmCatch(variant))
                /\ eff' = [eff EXCEPT ![r].retrieveThrew = TRUE]
                /\ UNCHANGED <<oid, cq>>
           ELSE IF variant = "cfA"
           THEN LET orderId == ConfirmOrderId(session)
                IN  /\ cq' = [cq EXCEPT
                                ![r].paid = isPaid(view, IntentOf(session, view)),
                                ![r].last = view]
                    /\ oid' = [oid EXCEPT ![r] = orderId]
                    /\ pc' = [pc EXCEPT ![r] =
                                IF orderId = Empty THEN "cf_find_cs" ELSE "cf_bf_read"]
                    /\ Issue(r, "reads")
                    /\ UNCHANGED <<resp, upd>>
           ELSE LET last == fetchAndJudge(session, view)
                IN  /\ cq' = [cq EXCEPT ![r].paid = last.paid, ![r].last = view]
                    /\ oid' = [oid EXCEPT ![r] = last.orderId]
                    /\ IF last.paid \/ eff[r].retrievals >= Len(Attempts)
                       THEN Reply(r, 200, ConfirmBodyB(last)) /\ UNCHANGED eff
                       ELSE /\ pc' = [pc EXCEPT ![r] = "cf_sleep"]
                            /\ UNCHANGED <<resp, upd, eff>>
  /\ UNCHANGED <<arg, ret, variant, orders, eventLog, now, rq>>

\* confirm-session.js:209-210: the sleep before the next attempt is over.
ConfirmSleep(r) ==
  /\ pc[r] = "cf_sleep"
  /\ pc' = [pc EXCEPT ![r] = "cf_retrieve"]
  /\ Issue(r, "retrievals")
  /\ UNCHANGED <<arg, ret, variant, orders, eventLog, now,
                 rq, oid, upd, resp, cq>>

\* The lookup select that never finds a row.
SelectIdBy_Never(column, value, failed) == Empty

\* .select("id").eq(column, value).maybeSingle(): the id of the single row
\* that matches, Empty when none matches, several match or the select fails.
SelectIdBy(column, value, failed) ==
  LET matches == {o \in DOMAIN orders : orders[o][column] = value}
  IN  IF ~failed /\ Cardinality(matches) = 1
      THEN CHOOSE o \in matches : TRUE
      ELSE Empty

\* confirm-session.js:46-53: the lookup by checkout_session_id returns.
ConfirmFindBySession(r) ==
  /\ pc[r] = "cf_find_cs"
  /\ \E failed \in BOOLEAN :
       LET session == Sessions[cq[r].sessionId]
           found == SelectIdBy("checkout_session_id", session.id, failed)
       IN  IF found = Empty /\ session.payment_intent.kind = "object"
           THEN /\ pc' = [pc EXCEPT ![r] = "cf_find_pi"]
                /\ eff' = [eff EXCEPT ![r].reads = @ + 1,
                                      ![r].selectFailed = failed]
                /\ UNCHANGED <<oid, resp, upd>>
           ELSE ConfirmBackfillOrReply(r, found, failed)
  /\ UNCHANGED <<arg, ret, variant, orders, eventLog, now, rq, cq>>

\* confirm-session.js:55-64: the lookup by payment_intent_id returns.
ConfirmFindByIntent(r) ==
  /\ pc[r] = "cf_find_pi"
  /\ \E failed \in BOOLEAN :
       LET session == Sessions[cq[r].sessionId]
       IN  ConfirmBackfillOrReply(
             r, SelectIdBy("payment_intent_id", session.payment_intent.id, failed),
             failed)
  /\ UNCHANGED <<arg, ret, variant, orders, eventLog, now, rq, cq>>

\* confirm-session.js:71-85: the select of backfillStripeIds returns.
ConfirmBackfillRead(r) ==
  /\ pc[r] = "cf_bf_read"
  /\ \E failed \in BOOLEAN :
       LET session == Sessions[cq[r].sessionId]
           found == ~failed /\ oid[r] \in DOMAIN orders
           patch == IF found
                    THEN BackfillPatch(orders[oid[r]], session.id,
                                       IdOf(IntentOf(session, cq[r].last)))
                    ELSE << >>
       IN  IF DOMAIN patch # {}
           THEN /\ upd' = [upd EXCEPT ![r] = patch]
                /\ pc' = [pc EXCEPT ![r] = "cf_bf_update"]
                /\ Issue(r, "updates")
                /\ UNCHANGED resp
           ELSE /\ Reply(r, 200, ConfirmBodyA(r, oid[r]))
                /\ UNCHANGED eff
  /\ UNCHANGED <<arg, ret, variant, orders, eventLog, now, rq, oid, cq>>

\* confirm-session.js:84 with 137-148: the update of backfillStripeIds is
\* applied or fails; its result is not looked at.
ConfirmBackfillUpdate(r) ==
  /\ pc[r] = "cf_bf_update"
  /\ \E failed \in BOOLEAN :
       LET hit == ~failed /\ oid[r] \in DOMAIN orders
       IN  /\ orders' = IF hit
                        THEN UpdateById(orders, oid[r], upd[r])
                        ELSE orders
           /\ eff' = [eff EXCEPT ![r].applied = IF hit THEN @ + 1 ELSE @]
           /\ Reply(r, 200, ConfirmBodyA(r, oid[r]))
  /\ UNCHANGED <<arg, ret, variant, eventLog, now, rq, oid, cq>>

\* A row the webhook has marked paid for intent pi.
PaidRow(pi) ==
  [NewOrder EXCEPT !.status = "paid", !.payment_status = "paid", !.paid_at = 0,
                   !.payment_intent_id = pi]

\* One of the handlers of src/api/confirm-session.js is deployed; the orders
\* are still pending or were paid by a webhook delivery.
ConfirmInitWith(vs) ==
  /\ variant \in vs
  /\ orders \in {[o \in OrderIds |-> IF o = IdOnes THEN a ELSE b] :
                   a \in {NewOrder, PaidRow("pi_1")},
                   b \in {NewOrder, PaidRow("pi_2")}}
  /\ eventLog = {}
  /\ now = 0
  /\ pc = [r \in Req |-> "idle"]
  /\ rq = [r \in Req |-> [method |-> "none", sigOk |-> FALSE, ev |-> NoEvent]]
  /\ oid = [r \in Req |-> Empty]
  /\ upd = [r \in Req |-> NoFields]
  /\ eff = [r \in Req |-> NoEffects]
  /\ resp = [r \in Req |-> NoResp]
  /\ cq = [r \in Req |-> NoConfirm]
  /\ arg = NoCall
  /\ ret = NoFields

ConfirmInit == ConfirmInitWith(ConfirmVariants)

ConfirmNext ==
  \/ \E r \in Calls : ConfirmReceive(r)
  \/ \E r \in Calls : ConfirmRetrieve(r)
  \/ \E r \in Calls : ConfirmSleep(r)
  \/ \E r \in Calls : ConfirmFindBySession(r)
  \/ \E r \in Calls : ConfirmFindByIntent(r)
  \/ \E r \in Calls : ConfirmBackfillRead(r)
  \/ \E r \in Calls : ConfirmBackfillUpdate(r)
  \/ \E o \in OrderIds : Cancel(o)

ConfirmSpec == ConfirmInit /\ [][ConfirmNext]_vars

\* The first handler (confirm-session.js:88-153) is deployed.
BackfillInit == ConfirmInitWith({"cfA"})

BackfillNext ==
  \/ \E r \in Calls : ConfirmReceive(r)
  \/ \E r \in Calls : ConfirmRetrieve(r)
  \/ \E r \in Calls : ConfirmFindBySession(r)
  \/ \E r \in Calls : ConfirmFindByIntent(r)
  \/ \E r \in Calls : ConfirmBackfillRead(r)
  \/ \E r \in Calls : ConfirmBackfillUpdate(r)
  \/ \E o \in OrderIds : Cancel(o)

BackfillSpec == BackfillInit /\ [][BackfillNext]_vars

\* The retrying handler (confirm-session.js:188-222) is deployed; an answer
\* awaited from the provider arrives and a sleep ends.
RetryInit == ConfirmInitWith({"cfB"})

RetryNext ==
  \/ \E r \in Calls : ConfirmReceive(r)
  \/ \E r \in Calls : ConfirmRetrieve(r)
  \/ \E r \in Calls : ConfirmSleep(r)

RetryFairSpec ==
  /\ RetryInit
  /\ [][RetryNext]_vars
  /\ \A r \in Calls : WF_vars(ConfirmRetrieve(r)) /\ WF_vars(ConfirmSleep(r))

\* The first handler is deployed and serves concurrent calls, among them calls
\* for the two checkout sessions cs_1 and cs_5 opened for one order.
RivalSessions == {"cs_1", "cs_2", "cs_5"}

RivalReceive(r) == ConfirmReceiveFrom(r, RivalSessions)

RivalNext ==
  \/ \E r \in Req : RivalReceive(r)
  \/ \E r \in Req : ConfirmRetrieve(r)
  \/ \E r \in Req : ConfirmFindBySession(r)
  \/ \E r \in Req : ConfirmFindByIntent(r)
  \/ \E r \in Req : ConfirmBackfillRead(r)
  \/ \E r \in Req : ConfirmBackfillUpdate(r)

RivalSpec == BackfillInit /\ [][RivalNext]_vars

\* src/api/stripe-webhook.js and the first handler of src/api/confirm-session.js
\* are deployed side by side and serve a sequence of requests, one at a
\* time.  `variant` is the endpoint the next request goes to.
Endpoints == {"main", "cfA"}

\* No request is being handled.
Quiet == \A q \in Req : pc[q] \in {"idle", "done"}

\* A confirm-session call arrives when no other request is being handled.
ConfirmReceiveSeq(r) ==
  /\ Quiet
  /\ ConfirmReceive(r)

SwitchEndpoint ==
  /\ Quiet
  /\ variant' \in Endpoints \ {variant}
  /\ UNCHANGED <<arg, ret, cq, orders, eventLog, now, pc, rq, oid, upd, eff, resp>>

SiteInit == InitWith(Endpoints)

SiteNext ==
  \/ \E r \in Calls : variant = "main" /\ ReceiveSeq(r)
  \/ \E r \in Calls : Retrieve(r)
  \/ \E r \in Calls : Read(r)
  \/ \E r \in Calls : Update(r)
  \/ \E r \in Calls : variant = "cfA" /\ ConfirmReceiveSeq(r)
  \/ \E r \in Calls : ConfirmRetrieve(r)
  \/ \E r \in Calls : ConfirmFindBySession(r)
  \/ \E r \in Calls : ConfirmFindByIntent(r)
  \/ \E r \in Calls : ConfirmBackfillRead(r)
  \/ \E r \in Calls : ConfirmBackfillUpdate(r)
  \/ SwitchEndpoint

SiteSpec == SiteInit /\ [][SiteNext]_vars

\* ---------------------------------------------------- src/api/webhook.js
\* Variant "wh": the handler of src/api/webhook.js.

\* obj.k, undefined when the object has no such property.
Get(obj, k) == IF k \in DOMAIN obj THEN obj[k] ELSE Absent
\* obj.k of a string-valued property, undefined (null) when it is missing.
GetStr(obj, k) == IF k \in DOMAIN obj THEN obj[k] ELSE NULL
\* a || b on string-valued fields.
Or(a, b) == IF Falsy(a) THEN b ELSE a

\* src/api/webhook.js:16-42
extractPmDetails(charge) ==
  LET pmd == IF charge.kind = "object"
             THEN Get(charge, "payment_method_details") ELSE Absent
      card == Get(pmd, "card")
  IN  IF pmd.kind # "object" THEN [brand |-> NULL, last4 |-> NULL]
      ELSE IF card.kind = "object"
      THEN [brand |-> Or(GetStr(card, "brand"), "card"),
            last4 |-> Or(GetStr(card, "last4"), NULL)]
      ELSE IF Get(pmd, "grabpay").kind = "object"
      THEN [brand |-> "grabpay", last4 |-> NULL]
      ELSE IF Get(pmd, "paynow").kind = "object"
      THEN [brand |-> "paynow", last4 |-> NULL]
      ELSE [brand |-> Or(GetStr(pmd, "type"), "unknown"), last4 |-> NULL]

\* An object as a webhook payload carries it: nested objects are not
\* expanded, latest_charge and payment_method are bare ids.
BareId(o) == IF o.kind = "object" /\ "id" \in DOMAIN o
             THEN [kind |-> "string", id |-> o.id] ELSE Absent
PayloadIntent(pi) ==
  [pi EXCEPT !.latest_charge = BareId(@), !.payment_method = Absent]

\* The events delivered to src/api/webhook.js: those of Events and a
\* forwarded charge event.
WhEvents ==
  [e \in EventIds \cup {"evt_ch1"} |->
     IF e = "evt_ch1" THEN [type |-> "charge.succeeded", obj |-> "pi_1"]
     ELSE Events[e]]
WhEventIds == DOMAIN WhEvents

\* src/api/webhook.js:45: the order id markPaidBySession updates.
SessionOrderIdWh(session) ==
  FirstTruthy(<<session.client_reference_id, session.metadata.order_id>>)

\* src/api/webhook.js:52-60: the update of markPaidBySession.
UpdatesSessionWh(session, t) ==
  [status |-> "paid", paid_at |-> t, checkout_session_id |-> session.id,
   payment_intent_id |-> IdOf(session.payment_intent)]

\* src/api/webhook.js:79-82: the primary charge (no modelled intent has the
\* legacy charges list).
PrimaryCharge(intent) == intent.latest_charge

\* src/api/webhook.js:87-90: the order id upsertChargeDetails updates; the
\* modelled charges carry no metadata of their own.
IntentOrderIdWh(intent) ==
  FirstTruthy(<<intent.metadata.order_id,
                GetStr(Get(PrimaryCharge(intent), "metadata"), "order_id")>>)

\* src/api/webhook.js:94-104: the update of upsertChargeDetails.
UpdatesChargeWh(intent, t) ==
  LET ch == PrimaryCharge(intent)
      bits == extractPmDetails(ch)
  IN  [status |-> "paid", paid_at |-> t, payment_intent_id |-> intent.id,
       charge_id |-> IF ch.kind = "object" THEN GetStr(ch, "id") ELSE NULL,
       payment_method_brand |-> bits.brand, payment_last4 |-> bits.last4]

\* res.status(200).json({received: true}) (webhook.js:191).
ReceivedBody == [received |-> TRUE]

\* upsertChargeDetails from the point where it has the intent
\* (webhook.js:74-104): it returns at once without an order id, otherwise it
\* awaits its update.
UpsertWith(r, intent, t) ==
  LET orderId == IntentOrderIdWh(intent)
  IN  IF orderId = Empty
      THEN /\ Reply(r, 200, ReceivedBody)
           /\ UNCHANGED <<oid, eff, now>>
      ELSE /\ oid' = [oid EXCEPT ![r] = orderId]
           /\ upd' = [upd EXCEPT ![r] = UpdatesChargeWh(intent, t)]
           /\ pc' = [pc EXCEPT ![r] = "wh_charge"]
           /\ now' = t
           /\ Issue(r, "updates")
           /\ UNCHANGED resp

\* A delivery arrives at src/api/webhook.js (121-190): the method test, the
\* raw body and the signature, then the switch up to the first awaited call.
WhReceive(r) ==
  /\ pc[r] = "idle"
  /\ \A q \in Req : q < r => pc[q] # "idle"
  /\ \E m \in Methods, sigOk \in BOOLEAN, e \in WhEventIds, t \in ClockReadings :
       LET verified == m = "POST" /\ sigOk
           type == WhEvents[e].type
       IN  /\ rq' = [rq EXCEPT ![r] =
                       [method |-> m, sigOk |-> verified,
                        ev |-> IF verified THEN e ELSE NoEvent]]
           /\ IF m # "POST"
              THEN Reply(r, 405, TextBody) /\ UNCHANGED <<oid, eff, now>>
              ELSE IF ~sigOk
              THEN Reply(r, 400, TextBody) /\ UNCHANGED <<oid, eff, now>>
              ELSE IF type = "checkout.session.completed"
              THEN LET session == Sessions[WhEvents[e].obj]
                   IN  /\ oid' = [oid EXCEPT ![r] = SessionOrderIdWh(session)]
                       /\ upd' = [upd EXCEPT ![r] = UpdatesSessionWh(session, t)]
                       /\ pc' = [pc EXCEPT ![r] = "wh_mark"]
                       /\ now' = t
                       /\ Issue(r, "updates")
                       /\ UNCHANGED resp
              ELSE IF type = "payment_intent.succeeded"
              THEN UpsertWith(r, PayloadIntent(PaymentIntents[WhEvents[e].obj]), t)
              ELSE IF type = "charge.succeeded"
              THEN /\ pc' = [pc EXCEPT ![r] = "wh_retrieve"]
                   /\ Issue(r, "retrievals")
                   /\ UNCHANGED <<oid, upd, resp, now>>
              ELSE Reply(r, 200, ReceivedBody) /\ UNCHANGED <<oid, eff, now>>
  /\ UNCHANGED <<arg, ret, cq, variant, orders, eventLog>>

\* The payment intent id upsertChargeDetails retrieves for the event of r.
IntentIdWh(e) ==
  IF WhEvents[e].type = "checkout.session.completed"
  THEN IdOf(Sessions[WhEvents[e].obj].payment_intent)
  ELSE WhEvents[e].obj

\* webhook.js:52-66 with 157-161: the update of markPaidBySession is applied
\* or fails (the error is only logged); the handler goes on to
\* upsertChargeDetails when the session names a payment intent.
WhMark(r) ==
  /\ pc[r] = "wh_mark"
  /\ \E failed \in BOOLEAN :
       LET hit == ~failed /\ oid[r] \in DOMAIN orders
       IN  /\ orders' = IF hit
                        THEN [orders EXCEPT ![oid[r]] = ApplyUpdate(@, upd[r])]
                        ELSE orders
           /\ IF IntentIdWh(rq[r].ev) # NULL
              THEN /\ pc' = [pc EXCEPT ![r] = "wh_retrieve"]
                   /\ eff' = [eff EXCEPT ![r].applied = IF hit THEN @ + 1 ELSE @,
                                         ![r].retrievals = @ + 1]
                   /\ upd' = [upd EXCEPT ![r] = NoFields]
                   /\ UNCHANGED resp
              ELSE /\ Reply(r, 200, ReceivedBody)
                   /\ eff' = [eff EXCEPT ![r].applied = IF hit THEN @ + 1 ELSE @]
  /\ UNCHANGED <<arg, ret, cq, variant, eventLog, now, rq, oid>>

\* webhook.js:71-74 with 192-195: stripe.paymentIntents.retrieve returns the
\* intent with its latest charge expanded, or throws.
WhRetrieve(r) ==
  /\ pc[r] = "wh_retrieve"
  /\ \E ok \in BOOLEAN, t \in ClockReadings :
       IF ~ok
       THEN /\ Reply(r, 500, [error |-> "handler failed"])
            /\ eff' = [eff EXCEPT ![r].retrieveThrew = TRUE]
            /\ UNCHANGED <<oid, now>>
       ELSE UpsertWith(r, PaymentIntents[IntentIdWh(rq[r].ev)], t)
  /\ UNCHANGED <<arg, ret, cq, variant, orders, eventLog, rq>>

\* webhook.js:94-111: the update of upsertChargeDetails is applied or fails
\* (the error is only logged).
WhCharge(r) ==
  /\ pc[r] = "wh_charge"
  /\ \E failed \in BOOLEAN :
       LET hit == ~failed /\ oid[r] \in DOMAIN orders
       IN  /\ orders' = IF hit
                        THEN [orders EXCEPT ![oid[r]] = ApplyUpdate(@, upd[r])]
                        ELSE orders
           /\ eff' = [eff EXCEPT ![r].applied = IF hit THEN @ + 1 ELSE @]
           /\ Reply(r, 200, ReceivedBody)
  /\ UNCHANGED <<arg, ret, cq, variant, eventLog, now, rq, oid>>

\* src/api/webhook.js is deployed.
WebhookJsInit == InitWith({"wh"})

WebhookJsNext ==
  \/ \E r \in Req : WhReceive(r)
  \/ \E r \in Req : WhMark(r)
  \/ \E r \in Req : WhRetrieve(r)
  \/ \E r \in Req : WhCharge(r)
  \/ \E o \in OrderIds : Cancel(o)

WebhookJsSpec == WebhookJsInit /\ [][WebhookJsNext]_vars

\* ------------------------------------- the payment-metadata extractors
\* The shapes a payment intent and its latest charge can have when they reach
\* extractCardBitsFromPI (stripe-webhook.js:47-65) and extractPmDetails
\* (webhook.js:16-42): null, a bare id string, or an object whose nested
\* parts are present or not.
ChargeCards == {Card(b, l) : b \in {NULL, "visa"}, l \in {NULL, "4242"}}
MethodCards == {Card(b, l) : b \in {NULL, "amex"}, l \in {NULL, "0005"}}
PmdShapes ==
  {Absent}
    \cup {[kind |-> "object", card |-> c] : c \in ChargeCards \cup {Absent}}
    \cup {[kind |-> "object", card |-> Absent, type |-> "grabpay",
           grabpay |-> [kind |-> "object"]],
          [kind |-> "object", card |-> Absent, type |-> "paynow",
           paynow |-> [kind |-> "object"]],
          [kind |-> "object", card |-> Absent, type |-> "alipay"]}
ChargeShapes ==
  {Absent, [kind |-> "string", id |-> "ch_9"]}
    \cup {[kind |-> "object", id |-> "ch_9", payment_method_details |-> d] :
            d \in PmdShapes}
MethodShapes ==
  {Absent, [kind |-> "string", id |-> "pm_9"]}
    \cup {[kind |-> "object", card |-> c] : c \in MethodCards \cup {Absent}}
IntentShapes ==
  {Absent}
    \cup {[kind |-> "object", id |-> "pi_9", metadata |-> Meta(Empty, Empty),
           amount |-> 100, latest_charge |-> ch, payment_method |-> pm] :
            ch \in ChargeShapes, pm \in MethodShapes}

\* The calls of the two extractors on their own.
ExtractCalls ==
  {[fn |-> "extractCardBitsFromPI", value |-> pi] : pi \in IntentShapes}
    \cup {[fn |-> "extractPmDetails", value |-> ch] : ch \in ChargeShapes}

ExtractInit ==
  /\ variant = "main"
  /\ orders = [o \in OrderIds |-> NewOrder]
  /\ eventLog = {}
  /\ now = 0
  /\ pc = [r \in Req |-> "idle"]
  /\ rq = [r \in Req |-> [method |-> "none", sigOk |-> FALSE, ev |-> NoEvent]]
  /\ oid = [r \in Req |-> Empty]
  /\ upd = [r \in Req |-> NoFields]
  /\ eff = [r \in Req |-> NoEffects]
  /\ resp = [r \in Req |-> NoResp]
  /\ cq = [r \in Req |-> NoConfirm]
  /\ arg \in ExtractCalls
  /\ ret = NoFields

\* stripe-webhook.js:47-65 is called and returns.
CallExtractCardBitsFromPI ==
  /\ arg.fn = "extractCardBitsFromPI"
  /\ ret = NoFields
  /\ ret' = extractCardBitsFromPI(arg.value)
  /\ UNCHANGED <<variant, orders, eventLog, now, pc, rq, oid, upd, eff, resp,
                 cq, arg>>

\* webhook.js:16-42 is called and returns.
CallExtractPmDetails ==
  /\ arg.fn = "extractPmDetails"
  /\ ret = NoFields
  /\ ret' = extractPmDetails(arg.value)
  /\ UNCHANGED <<variant, orders, eventLog, now, pc, rq, oid, upd, eff, resp,
                 cq, arg>>

ExtractNext ==
  \/ CallExtractCardBitsFromPI
  \/ CallExtractPmDetails

ExtractSpec == ExtractInit /\ [][ExtractNext]_vars

\* Any one of the four webhook variants main, p1a, p1c, log is deployed.
Init == InitWith(Variants)

Next ==
  \/ \E r \in Req : Receive(r)
  \/ \E r \in Req : LogInsert(r)
  \/ \E r \in Req : Retrieve(r)
  \/ \E r \in Req : Read(r)
  \/ \E r \in Req : Update(r)
  \/ \E r \in Req : Recalc(r)
  \/ \E r \in Req : Rpc(r)
  \/ \E o \in OrderIds : Cancel(o)

Spec == Init /\ [][Next]_vars

\* src/api/stripe-webhook.js or src/unnamed/part_003 is deployed.
HooksInit == InitWith({"main", "log"})

HooksNext ==
  \/ \E r \in Req : Receive(r)
  \/ \E r \in Req : LogInsert(r)
  \/ \E r \in Req : Retrieve(r)
  \/ \E r \in Req : Read(r)
  \/ \E r \in Req : Update(r)
  \/ \E r \in Req : Rpc(r)
  \/ \E o \in OrderIds : Cancel(o)

HooksSpec == HooksInit /\ [][HooksNext]_vars

\* src/api/stripe-webhook.js is deployed.
MainInit == InitWith({"main"})

MainNext ==
  \/ \E r \in Req : Receive(r)
  \/ \E r \in Req : Retrieve(r)
  \/ \E r \in Req : Read(r)
  \/ \E r \in Req : Update(r)
  \/ \E o \in OrderIds : Cancel(o)

MainSpec == MainInit /\ [][MainNext]_vars

\* src/unnamed/part_001, lines 1-167, is deployed.
GuardedInit == InitWith({"p1a"})

GuardedNext ==
  \/ \E r \in Req : Receive(r)
  \/ \E r \in Req : Retrieve(r)
  \/ \E r \in Req : Read(r)
  \/ \E r \in Req : Update(r)
  \/ \E r \in Req : Recalc(r)
  \/ \E o \in OrderIds : Cancel(o)

GuardedSpec == GuardedInit /\ [][GuardedNext]_vars

\* src/unnamed/part_003 is deployed.
LogInit == InitWith({"log"})

LogNext ==
  \/ \E r \in Req : Receive(r)
  \/ \E r \in Req : LogInsert(r)
  \/ \E r \in Req : Retrieve(r)
  \/ \E r \in Req : Rpc(r)
  \/ \E o \in OrderIds : Cancel(o)

LogSpec == LogInit /\ [][LogNext]_vars

\* src/unnamed/part_003 is deployed and receives refund events.
RefundInit == InitWith({"log"})

RefundNext ==
  \/ \E r \in Req : RefundReceive(r)
  \/ \E r \in Req : LogInsert(r)
  \/ \E r \in Req : RefundCharge(r)
  \/ \E r \in Req : RefundIntent(r)
  \/ \E r \in Req : RefundRpc(r)

RefundSpec == RefundInit /\ [][RefundNext]_vars

\* src/api/stripe-webhook.js is deployed and handles its deliveries one
\* after the other.
SeqInit == InitWith({"main"})

SeqNext ==
  \/ \E r \in Req : ReceiveSeq(r)
  \/ \E r \in Req : Retrieve(r)
  \/ \E r \in Req : Read(r)
  \/ \E r \in Req : Update(r)
  \/ \E o \in OrderIds : Cancel(o)

SeqSpec == SeqInit /\ [][SeqNext]_vars

\* ------------------------------------------------------------- claims
TerminalStatuses == {"paid", "completed", "canceled"}
Done(r) == pc[r] = "done"
Reason(r) == IF Has(resp[r].body, "reason") THEN resp[r].body.reason ELSE ""
\* The step in which request r's awaited call `at` returns.
Returns(r, at) == pc[r] = at /\ pc'[r] # at

\* C1: in src/api/stripe-webhook.js, when markOrderPaid's select returns a row
\* whose status is paid, completed or canceled, the call ends there with
\* reason already_terminal and HTTP 200, no update is issued, and the orders
\* table is left as it was.
C1_TerminalIsNoOp ==
  [][\A r \in Req :
       ( /\ variant = "main"
         /\ Returns(r, "read")
         /\ oid[r] \in DOMAIN orders
         /\ orders[oid[r]].status \in TerminalStatuses
         /\ ~Is(resp'[r].body, "reason", "read_failed") )
       => /\ pc'[r] = "done"
          /\ resp'[r].status = 200
          /\ Is(resp'[r].body, "reason", "already_terminal")
          /\ Is(resp'[r].body, "ok", TRUE)
          /\ eff'[r].updates = 0
          /\ orders' = orders]_vars

\* C1 witness: Scenario D, a paid event answered already_terminal on a
\* canceled order that is still canceled.
C1_Witness ==
  \E r \in Req :
    /\ variant = "main"
    /\ Done(r)
    /\ Reason(r) = "already_terminal"
    /\ Events[rq[r].ev].type \in CheckoutTypes \cup IntentTypes
    /\ orders[oid[r]].status = "canceled"
    /\ eff[r].updates = 0

\* C2: in every markOrderPaid that updates the orders table itself, an order
\* that the cancellation flow has set to canceled is still canceled after any
\* step of a delivery (the update excludes rows canceled at write time).
C2_CanceledStaysCanceled ==
  [][\A o \in OrderIds :
       (variant \in DirectVariants /\ orders[o].status = "canceled")
       => orders'[o].status = "canceled"]_vars

\* C3: in src/api/stripe-webhook.js, of the deliveries that target one order
\* at most one has its update applied to the row.
C3_AtMostOneUpdateApplied ==
  \A o \in OrderIds :
    variant = "main"
    => Cardinality({r \in Req : oid[r] = o /\ eff[r].applied > 0}) <= 1

PaidTypes == CheckoutTypes \cup IntentTypes
\* Request r has been answered for a verified payment-confirmed event.
HandledPaid(r) ==
  /\ Done(r)
  /\ rq[r].ev # NoEvent
  /\ Events[rq[r].ev].type \in PaidTypes
\* Request r was answered without a provider or store failure.
Succeeded(r) == resp[r].status = 200 /\ ~Is(resp[r].body, "ok", FALSE)

\* C4 (as stated): in src/unnamed/part_003, when the log insert of a delivery
\* returns and stripe_event_logs already holds the delivery's event id, the
\* delivery is answered HTTP 200 {ok:true, reason:"duplicate_event"}, has
\* issued no provider retrieval and no RPC, and the orders table is unchanged.
C4_Original ==
  [][\A r \in Req :
       ( /\ variant = "log"
         /\ Returns(r, "log")
         /\ rq[r].ev \in eventLog )
       => /\ pc'[r] = "done"
          /\ resp'[r] = [status |-> 200,
                         body |-> [ok |-> TRUE, reason |-> "duplicate_event"]]
          /\ eff'[r].retrievals = 0
          /\ eff'[r].rpcs = 0
          /\ orders' = orders]_vars

\* C4: in src/unnamed/part_003, when the log insert of a delivery returns,
\* stripe_event_logs already holds the delivery's event id and the insert has
\* not failed for another reason than the uniqueness of event_id (missing
\* table, other database error, thrown exception), the delivery is answered
\* HTTP 200 {ok:true, reason:"duplicate_event"}, has issued no provider
\* retrieval and no RPC, and the orders table is unchanged.
C4_DuplicateIsNoOp ==
  [][\A r \in Req :
       ( /\ variant = "log"
         /\ Returns(r, "log")
         /\ rq[r].ev \in eventLog
         /\ eff'[r].logResult \notin {"loggingDisabled", "error"} )
       => /\ pc'[r] = "done"
          /\ resp'[r] = [status |-> 200,
                         body |-> [ok |-> TRUE, reason |-> "duplicate_event"]]
          /\ eff'[r].retrievals = 0
          /\ eff'[r].rpcs = 0
          /\ orders' = orders]_vars

\* C4 witness: Scenario B, an event that paid its order is delivered again and
\* answered duplicate_event without a retrieval or an RPC.
C4_Witness ==
  \E q, r \in Req :
    /\ variant = "log"
    /\ q # r
    /\ rq[q].ev = rq[r].ev
    /\ HandledPaid(q) /\ Done(r)
    /\ eff[q].rpcs = 1 /\ Is(resp[q].body, "orderId", oid[q])
    /\ oid[q] \in DOMAIN orders
    /\ orders[oid[q]].status = "paid"
    /\ Reason(r) = "duplicate_event"
    /\ eff[r].retrievals = 0 /\ eff[r].rpcs = 0

\* C5: in src/api/stripe-webhook.js with deliveries handled one after the
\* other, once a payment-confirmed event has been handled without failure, no
\* step of a later delivery of the same event changes any field of any order
\* (paid_at included).
C5_SecondHandlingChangesNothing ==
  [][\A r \in Req :
       ( /\ variant = "main"
         /\ pc'[r] # pc[r]
         /\ \E q \in Req \ {r} :
              /\ HandledPaid(q) /\ Succeeded(q)
              /\ rq'[r].ev = rq[q].ev )
       => orders' = orders]_vars

\* C5 witness: the same event handled twice in sequence; the first delivery
\* paid the order, the second found it terminal at a later clock reading, and
\* paid_at is still the first delivery's.
C5_Witness ==
  \E q, r \in Req :
    /\ variant = "main"
    /\ q # r
    /\ HandledPaid(q) /\ HandledPaid(r)
    /\ rq[q].ev = rq[r].ev
    /\ eff[q].applied = 1 /\ Succeeded(q)
    /\ Reason(r) = "already_terminal"
    /\ orders[oid[q]].status = "paid"
    /\ orders[oid[q]].paid_at < now

\* The columns C6 compares.
C6Fields ==
  {"status", "payment_intent_id", "charge_id", "checkout_session_id",
   "payment_method_brand", "payment_last4", "total_cents"}

\* C6: in src/api/stripe-webhook.js with deliveries handled one after the
\* other, when the checkout.session.completed event and the
\* payment_intent.succeeded event of one payment have both been handled
\* without failure for an order that was pending, the order's status,
\* identifiers, brand, last4 and total_cents are those the session-first
\* order of handling leaves, whichever event was handled first.
C6_OrderOfEventsIrrelevant ==
  \A q, r \in Req :
    ( /\ variant = "main"
      /\ rq[q].ev = "evt_cs1" /\ rq[r].ev = "evt_pi1"
      /\ HandledPaid(q) /\ Succeeded(q)
      /\ HandledPaid(r) /\ Succeeded(r)
      /\ eff[q].applied + eff[r].applied = 1 )
    => LET sessionFirst ==
             ApplyUpdate(NewOrder, UpdatesSessionMain(Sessions.cs_1, now))
       IN  \A c \in C6Fields : orders[IdOnes][c] = sessionFirst[c]

\* C7: in src/api/stripe-webhook.js, a delivery of a verified
\* payment-confirmed event whose order-id sources are all empty or resolve to
\* an id that is not of UUID form is answered HTTP 200 with ignored:true and
\* has issued no read and no update.
C7_InvalidIdIgnored ==
  \A r \in Req :
    ( /\ variant = "main"
      /\ HandledPaid(r)
      /\ LET id == ResolveOrderId("main", rq[r].ev)
         IN  id = Empty \/ ~isUuid(id) )
    => /\ resp[r].status = 200
       /\ Is(resp[r].body, "ignored", TRUE)
       /\ eff[r].reads = 0
       /\ eff[r].updates = 0

\* C8: in src/api/stripe-webhook.js and src/unnamed/part_003, a POST whose
\* signature verification fails is answered HTTP 400 in the step it arrives
\* in, and that request has issued no log insert, no provider retrieval, no
\* order read, no order update and no RPC; the orders table and the event log
\* are unchanged.
C8_BadSignatureHalts ==
  [][\A r \in Req :
       ( /\ variant \in {"main", "log"}
         /\ Returns(r, "idle")
         /\ rq'[r].method = "POST"
         /\ ~rq'[r].sigOk )
       => /\ pc'[r] = "done"
          /\ resp'[r].status = 400
          /\ eff'[r] = NoEffects
          /\ orders' = orders
          /\ eventLog' = eventLog]_vars

\* C8 witness: under one of the two handlers a POST with a bad signature has
\* been answered 400 while another delivery has paid an order.
C8_Witness ==
  \E q, r \in Req :
    /\ variant \in {"main", "log"}
    /\ Done(r) /\ rq[r].method = "POST" /\ ~rq[r].sigOk
    /\ resp[r].status = 400
    /\ eff[r] = NoEffects
    /\ HandledPaid(q) /\ Succeeded(q)
    /\ oid[q] \in DOMAIN orders
    /\ orders[oid[q]].status = "paid"

\* C9: when the update of a checkout.session.completed delivery whose
\* metadata.order_id is the UUID-valid id of an order is applied
\* (src/api/stripe-webhook.js, part_001:1-167), the order has status paid and
\* payment_status paid, and its payment_intent_id, charge_id,
\* checkout_session_id, brand and last4 are those of the session, its intent
\* and its latest card charge.
C9_SessionCompletedMarksPaid ==
  [][\A r \in Req :
       ( /\ variant \in {"main", "p1a"}
         /\ Returns(r, "update")
         /\ rq[r].ev = "evt_cs1"
         /\ eff'[r].applied > eff[r].applied )
       => LET row == orders'[IdOnes]
          IN  /\ row.status = "paid"
              /\ row.payment_status = "paid"
              /\ row.payment_intent_id = "pi_1"
              /\ row.charge_id = "ch_1"
              /\ row.checkout_session_id = "cs_1"
              /\ row.payment_method_brand = "visa"
              /\ row.payment_last4 = "4242"]_vars

\* C10: in src/api/stripe-webhook.js, a delivery whose markOrderPaid ended
\* with read_failed or update_failed is answered with an HTTP 5xx status.
C10_StoreFailureIs5xx ==
  \A r \in Req :
    ( /\ variant = "main"
      /\ Done(r)
      /\ Reason(r) \in {"read_failed", "update_failed"} )
    => resp[r].status >= 500

\* C11: in src/api/stripe-webhook.js, when markOrderPaid's select returns
\* without error and no row has the UUID-valid order id, the delivery is
\* answered HTTP 200 with reason not_found, no update has been issued, and the
\* orders table has the same rows with the same contents as before.
C11_NotFoundIsNoOp ==
  [][\A r \in Req :
       ( /\ variant = "main"
         /\ Returns(r, "read")
         /\ isUuid(oid[r])
         /\ oid[r] \notin DOMAIN orders
         /\ ~Is(resp'[r].body, "reason", "read_failed") )
       => /\ pc'[r] = "done"
          /\ resp'[r].status = 200
          /\ Is(resp'[r].body, "reason", "not_found")
          /\ eff'[r].updates = 0
          /\ DOMAIN orders' = DOMAIN orders
          /\ orders' = orders]_vars

\* C11 witness: a payment_intent.succeeded delivery for an id without a row
\* has been answered not_found after one read and no update.
C11_Witness ==
  \E r \in Req :
    /\ variant = "main"
    /\ HandledPaid(r)
    /\ oid[r] = IdGone
    /\ resp[r].status = 200
    /\ Reason(r) = "not_found"
    /\ eff[r].reads = 1 /\ eff[r].updates = 0
    /\ IdGone \notin DOMAIN orders

\* C12: in src/api/stripe-webhook.js, when the provider retrieval of a
\* delivery throws, the delivery is answered HTTP 500 in that step, it has
\* issued no read and no update, and the orders table is unchanged.
C12_RetrievalThrowIs500 ==
  [][\A r \in Req :
       ( /\ variant = "main"
         /\ Returns(r, "retrieve")
         /\ eff'[r].retrieveThrew )
       => /\ pc'[r] = "done"
          /\ resp'[r].status = 500
          /\ eff'[r].reads = 0
          /\ eff'[r].updates = 0
          /\ eff'[r].applied = 0
          /\ orders' = orders]_vars

\* C12 witness: the retrieval of a checkout.session.completed delivery for a
\* pending order threw; the answer is 500 and the order is still pending.
C12_Witness ==
  \E r \in Req :
    /\ variant = "main"
    /\ HandledPaid(r)
    /\ rq[r].ev = "evt_cs1"
    /\ eff[r].retrieveThrew
    /\ resp[r].status = 500
    /\ eff[r].reads = 0 /\ eff[r].updates = 0
    /\ orders[IdOnes].status = "pending"

\* C13: in src/api/stripe-webhook.js, a verified event whose type is none of
\* checkout.session.completed, checkout.session.async_payment_succeeded and
\* payment_intent.succeeded (checkout.session.expired and
\* payment_intent.payment_failed among them) is answered HTTP 200 in the step
\* it arrives in; the request has issued no provider retrieval, no read and no
\* update, and the orders table is unchanged.
C13_OtherEventsAcknowledged ==
  [][\A r \in Req :
       ( /\ variant = "main"
         /\ Returns(r, "idle")
         /\ rq'[r].ev # NoEvent
         /\ Events[rq'[r].ev].type \notin
              {"checkout.session.completed",
               "checkout.session.async_payment_succeeded",
               "payment_intent.succeeded"} )
       => /\ pc'[r] = "done"
          /\ resp'[r] = [status |-> 200, body |-> [received |-> TRUE]]
          /\ eff'[r] = NoEffects
          /\ orders' = orders]_vars

\* C13 witness: checkout.session.expired for the session of a pending order
\* and payment_intent.payment_failed have both been acknowledged, and the
\* order is still pending.
C13_Witness ==
  \E q, r \in Req :
    /\ variant = "main"
    /\ Done(q) /\ Done(r)
    /\ rq[q].ev = "evt_exp" /\ rq[r].ev = "evt_fail"
    /\ resp[q].status = 200 /\ resp[r].status = 200
    /\ eff[q] = NoEffects /\ eff[r] = NoEffects
    /\ orders[IdOnes].status = "pending"

\* C14: in src/api/stripe-webhook.js and src/unnamed/part_003, a request
\* whose method is not POST has been answered HTTP 405 and has issued no log
\* insert, no provider retrieval, no read, no update and no RPC; no event was
\* constructed from its body.
C14_NonPostIs405 ==
  \A r \in Req :
    ( /\ variant \in {"main", "log"}
      /\ rq[r].method \notin {"none", "POST"} )
    => /\ pc[r] = "done"
       /\ resp[r].status = 405
       /\ rq[r].ev = NoEvent
       /\ eff[r] = NoEffects

\* C14 witness: a GET has been answered 405 with nothing issued, while the
\* orders are as they were created.
C14_Witness ==
  \E r \in Req :
    /\ variant \in {"main", "log"}
    /\ rq[r].method = "GET"
    /\ Done(r)
    /\ resp[r].status = 405
    /\ eff[r] = NoEffects
    /\ eventLog = {}
    /\ \A o \in OrderIds : orders[o].paid_at = NoNum

\* C15: in src/unnamed/part_003, when the log insert of a delivery returns
\* without the event id being in stripe_event_logs afterwards (the insert
\* failed: missing table, other store error, thrown exception) or with
\* logStripeEventOnce reporting loggingDisabled or an error, the delivery is
\* not answered duplicate_event: a payment-confirmed event with a valid order
\* id goes on to its provider retrieval, and every other event is answered as
\* the switch answers it.
C15_LogFailureStillDispatches ==
  [][\A r \in Req :
       ( /\ variant = "log"
         /\ Returns(r, "log")
         /\ \/ rq[r].ev \notin eventLog'
            \/ eff'[r].logResult \in {"loggingDisabled", "error"} )
       => LET e == rq[r].ev
              type == Events[e].type
              id == ResolveOrderId("log", e)
              paidType == type \in {"checkout.session.completed",
                                    "checkout.session.async_payment_succeeded",
                                    "payment_intent.succeeded"}
          IN  /\ ~Is(resp'[r].body, "reason", "duplicate_event")
              /\ (paidType /\ isUuidV(id))
                   => /\ pc'[r] = "retrieve"
                      /\ eff'[r].retrievals = 1
                      /\ oid'[r] = id
              /\ (paidType /\ ~isUuidV(id))
                   => /\ pc'[r] = "done"
                      /\ resp'[r].status = 200
                      /\ Is(resp'[r].body, "ignored", TRUE)
              /\ ~paidType
                   => /\ pc'[r] = "done"
                      /\ resp'[r].status = 200
                      /\ Is(resp'[r].body, "received", TRUE)
              /\ orders' = orders]_vars

\* C15 witness: a delivery whose log insert ended in an error object has gone
\* on to the RPC and its order is paid, the event log still empty.
C15_Witness ==
  \E r \in Req :
    /\ variant = "log"
    /\ HandledPaid(r)
    /\ eff[r].logResult = "error"
    /\ eff[r].retrievals = 1 /\ eff[r].rpcs = 1
    /\ resp[r].status = 200
    /\ oid[r] \in DOMAIN orders
    /\ orders[oid[r]].status = "paid"
    /\ eventLog = {}

\* logStripeEventOnce of request r has returned without reporting a duplicate:
\* the request went on to the switch.
PassedLog(r) == eff[r].logResult \in {"ok", "loggingDisabled", "error"}

\* C16 (as stated): in src/unnamed/part_003, of two deliveries of the same
\* event id at most one passes logStripeEventOnce.
C16_Original ==
  \A q, r \in Req :
    ( /\ variant = "log"
      /\ q # r
      /\ rq[q].ev # NoEvent
      /\ rq[q].ev = rq[r].ev )
    => ~(PassedLog(q) /\ PassedLog(r))

\* C16: in src/unnamed/part_003, of two deliveries of the same event id whose
\* log inserts have both returned and neither failed for another reason than
\* the uniqueness of event_id, at most one has passed logStripeEventOnce, the
\* one that passed is among the deliveries of that event, and each one that
\* did not pass has been answered HTTP 200 duplicate_event without a
\* retrieval or an RPC.
C16_OneDeliveryPasses ==
  \A q, r \in Req :
    ( /\ variant = "log"
      /\ q # r
      /\ rq[q].ev # NoEvent
      /\ rq[q].ev = rq[r].ev
      /\ eff[q].logResult \in {"ok", "alreadyProcessed"}
      /\ eff[r].logResult \in {"ok", "alreadyProcessed"} )
    => /\ ~(eff[q].logResult = "ok" /\ eff[r].logResult = "ok")
       /\ \E w \in Req : rq[w].ev = rq[q].ev /\ eff[w].logResult = "ok"
       /\ \A d \in {q, r} :
            eff[d].logResult = "alreadyProcessed"
            => /\ Done(d)
               /\ resp[d] = [status |-> 200,
                             body |-> [ok |-> TRUE, reason |-> "duplicate_event"]]
               /\ eff[d].retrievals = 0
               /\ eff[d].rpcs = 0

\* C16 witness: two concurrent deliveries of one payment event; the second was
\* answered duplicate_event while the first was still waiting for its
\* retrieval.
C16_Witness ==
  \E w, d \in Req :
    /\ variant = "log"
    /\ w # d
    /\ rq[w].ev = "evt_cs2" /\ rq[d].ev = "evt_cs2"
    /\ pc[w] = "retrieve"
    /\ eff[w].logResult = "ok"
    /\ Done(d)
    /\ Reason(d) = "duplicate_event"
    /\ eff[d].retrievals = 0 /\ eff[d].rpcs = 0

C18_ConfirmWritesOnlyIds ==
  [][(\E r \in Calls : pc'[r] # pc[r]) =>
       \A o \in OrderIds : \A c \in DOMAIN orders[o] :
         c \notin {"checkout_session_id", "payment_intent_id"}
           => orders'[o][c] = orders[o][c]]_vars

\* A call that judged the session paid has backfilled the session id into
\* an order that is still pending and unpaid.
C18_Witness ==
  \E r \in Calls :
    /\ variant = "cfA" /\ Done(r) /\ resp[r].status = 200
    /\ cq[r].paid /\ eff[r].applied = 1
    /\ oid[r] \in DOMAIN orders
    /\ orders[oid[r]].checkout_session_id = cq[r].sessionId
    /\ orders[oid[r]].status = "pending"
    /\ orders[oid[r]].payment_status = "unpaid"
    /\ orders[oid[r]].paid_at = NoNum


\* C19: every confirm-session call made with GET or POST that carries a
\* session id is answered HTTP 200 with ok:true and a paid value of true or
\* false, also when the provider retrieval or a store call has failed.
C19_AlwaysOkAnswer ==
  \A r \in Calls :
    ( /\ Done(r)
      /\ rq[r].method \in {"GET", "POST"}
      /\ cq[r].sessionId # Empty )
    => /\ resp[r].status = 200
       /\ Is(resp[r].body, "ok", TRUE)
       /\ Has(resp[r].body, "paid")
       /\ resp[r].body["paid"] \in BOOLEAN

\* C20: a confirm-session call answered HTTP 200 reports paid:true if and
\* only if the session it retrieved last has payment_status 'paid' or its
\* expanded payment intent has status 'succeeded'.
C20_PaidIffPaidOrSucceeded ==
  \A r \in Calls :
    ( /\ Done(r)
      /\ resp[r].status = 200
      /\ cq[r].sessionId # Empty )
    => ( Is(resp[r].body, "paid", TRUE)
         <=> \/ cq[r].last.payment_status = "paid"
             \/ cq[r].last.piStatus = "succeeded" )


\* The checkout sessions that offer two different order ids: a non-empty
\* metadata.order_id and a non-empty client_reference_id that differs.
TwoIdSessions ==
  {c \in DOMAIN Sessions :
     /\ Sessions[c].metadata.order_id # Empty
     /\ Sessions[c].client_reference_id # Empty
     /\ Sessions[c].metadata.order_id # Sessions[c].client_reference_id}

\* C21: a delivery of a checkout.session.completed event whose session has a
\* non-empty metadata.order_id and a different non-empty client_reference_id
\* is reconciled to the order named by metadata.order_id: the update it
\* issues for the session is keyed by that id, and no step of the delivery
\* changes another order.
C21_MetadataOrderIdWins ==
  [][\A r \in Req :
       ( /\ pc'[r] # pc[r]
         /\ rq'[r].ev # NoEvent
         /\ WhEvents[rq'[r].ev].type = "checkout.session.completed"
         /\ WhEvents[rq'[r].ev].obj \in TwoIdSessions )
       => LET named == Sessions[WhEvents[rq'[r].ev].obj].metadata.order_id
          IN  /\ pc'[r] \in {"wh_mark", "read", "update"} => oid'[r] = named
              /\ \A o \in OrderIds : o # named => orders'[o] = orders[o]]_vars


\* The orders whose stored column equals value.
StoredBy(column, value) == {o \in OrderIds : orders[o][column] = value}

\* What the lookup select of request r that has just returned is taken to
\* have found: the matching orders, or nothing when errorsCount and the
\* select returned an error.
LookupFound(r, column, value, errorsCount) ==
  IF errorsCount /\ eff'[r].selectFailed THEN {} ELSE StoredBy(column, value)

\* The first handler of confirm-session.js consults findOrderIdByStripeIds
\* exactly when the session offers no order id, and the lookup goes by
\* checkout_session_id first, by payment_intent_id second, null last.
LookupSteps(errorsCount) ==
  \A r \in Calls :
    variant = "cfA" =>
      LET session == Sessions[cq[r].sessionId]
          bySession == LookupFound(r, "checkout_session_id", session.id,
                                   errorsCount)
          byIntent == LookupFound(r, "payment_intent_id",
                                  IdOf(session.payment_intent), errorsCount)
          isNull == /\ pc'[r] = "done"
                    /\ resp'[r].status = 200
                    /\ Is(resp'[r].body, "orderId", NULL)
          goesOn(found) == /\ oid'[r] \in found
                           /\ pc'[r] = "cf_bf_read"
      IN  /\ (Returns(r, "cf_retrieve") /\ ~eff'[r].retrieveThrew)
               => ( pc'[r] = "cf_find_cs"
                    <=> /\ session.metadata.order_id = Empty
                        /\ session.client_reference_id = Empty )
          /\ Returns(r, "cf_find_cs")
               => IF bySession # {} THEN goesOn(bySession)
                  ELSE IF session.payment_intent.kind = "object"
                  THEN pc'[r] = "cf_find_pi"
                  ELSE isNull
          /\ Returns(r, "cf_find_pi")
               => IF byIntent # {} THEN goesOn(byIntent) ELSE isNull

\* C22 (as stated): findOrderIdByStripeIds returns the id of the order whose
\* stored checkout_session_id equals the session id whenever such an order
\* exists, otherwise the id of the order whose stored payment_intent_id
\* equals the intent id, otherwise null.
C22_Original == [][LookupSteps(FALSE)]_vars

\* C22: findOrderIdByStripeIds returns the id of the order whose stored
\* checkout_session_id equals the session id when such an order exists and
\* the select for it returns no error; otherwise the id of the order whose
\* stored payment_intent_id equals the intent id when that select returns no
\* error; otherwise null.  The handler consults it exactly when the session
\* has neither a metadata.order_id nor a client_reference_id.
C22_LookupBySessionThenIntent == [][LookupSteps(TRUE)]_vars

\* A call for a session without order ids was answered with the order found
\* by its stored checkout_session_id: two selects, the lookup by session and
\* the read of backfillStripeIds.
C22_Witness ==
  \E r \in Calls :
    /\ variant = "cfA" /\ Done(r) /\ resp[r].status = 200
    /\ cq[r].sessionId = "cs_2"
    /\ ~eff[r].selectFailed
    /\ eff[r].reads = 2
    /\ oid[r] = IdV4
    /\ orders[IdV4].checkout_session_id = "cs_2"
    /\ Is(resp[r].body, "orderId", IdV4)


\* C23: the first handler of confirm-session.js never awaits a store read or
\* update keyed by an order id that is not of UUID form: an id resolved from
\* the session that fails the validation is treated as no order, the answer
\* carrying orderId null.
C23_NoStoreCallForInvalidId ==
  \A r \in Calls :
    variant = "cfA" =>
      /\ pc[r] \in {"cf_bf_read", "cf_bf_update"} => isUuid(oid[r])
      /\ ( /\ Done(r)
           /\ resp[r].status = 200
           /\ cq[r].sessionId # Empty
           /\ ~isUuid(ConfirmOrderId(Sessions[cq[r].sessionId]))
           /\ ConfirmOrderId(Sessions[cq[r].sessionId]) # Empty )
         => Is(resp[r].body, "orderId", NULL)


\* The card sub-object of an intent's expanded latest charge and of its
\* attached payment method, Absent when there is none.
ChargeCardOf(pi) ==
  IF /\ pi.kind = "object"
     /\ pi.latest_charge.kind = "object"
     /\ pi.latest_charge.payment_method_details.kind = "object"
  THEN pi.latest_charge.payment_method_details.card
  ELSE Absent
MethodCardOf(pi) ==
  IF pi.kind = "object" /\ pi.payment_method.kind = "object"
  THEN pi.payment_method.card
  ELSE Absent
\* Field k of the charge's card, else of the payment method's card, else null.
CardField(pi, k) ==
  IF ChargeCardOf(pi).kind = "object" /\ ChargeCardOf(pi)[k] # NULL
  THEN ChargeCardOf(pi)[k]
  ELSE IF MethodCardOf(pi).kind = "object" /\ MethodCardOf(pi)[k] # NULL
  THEN MethodCardOf(pi)[k]
  ELSE NULL

\* C24: extractCardBitsFromPI returns brand and last4 of the card of the
\* expanded latest charge and the id of that charge; a brand or last4 the
\* charge does not give is taken from the card of the attached payment
\* method; every field still missing is null.
C24_CardBitsWithFallback ==
  (arg.fn = "extractCardBitsFromPI" /\ ret # NoFields)
  => LET pi == arg.value
     IN  /\ ret.brand = CardField(pi, "brand")
         /\ ret.last4 = CardField(pi, "last4")
         /\ ret.chargeId =
              IF pi.kind = "object" /\ pi.latest_charge.kind = "object"
              THEN pi.latest_charge.id ELSE NULL

\* The charge's card gives the brand only; last4 came from the card of the
\* attached payment method.
C24_Witness ==
  /\ arg.fn = "extractCardBitsFromPI"
  /\ ChargeCardOf(arg.value) = Card("visa", NULL)
  /\ MethodCardOf(arg.value) = Card("amex", "0005")
  /\ ret = [brand |-> "visa", last4 |-> "0005", chargeId |-> "ch_9"]


\* payment_method_details of a charge handed to extractPmDetails, Absent when
\* the charge is null, a bare id or has none.
DetailsOf(charge) ==
  IF charge.kind = "object" THEN Get(charge, "payment_method_details")
  ELSE Absent

\* The texts extractPmDetails can read a brand from: the card's brand, the
\* tag of a redirect-style method that is present, the generic type.
ReadableBrands(charge) ==
  LET pmd == DetailsOf(charge)
  IN  {GetStr(Get(pmd, "card"), "brand"), GetStr(pmd, "type")}
        \cup {m \in {"grabpay", "paynow"} : Get(pmd, m).kind = "object"}

\* C25: the extractors return for every input shape (null intent or charge,
\* latest_charge as a bare id, no payment_method_details, no card), and each
\* field they cannot read from the input is null.
C25_ExtractorsDegradeToNull ==
  ret # NoFields =>
    IF arg.fn = "extractCardBitsFromPI"
    THEN /\ DOMAIN ret = {"brand", "last4", "chargeId"}
         /\ ret.brand \in {NULL, GetStr(ChargeCardOf(arg.value), "brand"),
                           GetStr(MethodCardOf(arg.value), "brand")}
         /\ ret.last4 \in {NULL, GetStr(ChargeCardOf(arg.value), "last4"),
                           GetStr(MethodCardOf(arg.value), "last4")}
         /\ ret.chargeId \in {NULL, GetStr(Get(arg.value, "latest_charge"), "id")}
    ELSE /\ DOMAIN ret = {"brand", "last4"}
         /\ ret.brand \in {NULL} \cup ReadableBrands(arg.value)
         /\ ret.last4 \in {NULL, GetStr(Get(DetailsOf(arg.value), "card"), "last4")}

\* C26: for a charge whose payment_method_details has no card, extractPmDetails
\* returns the tag of the redirect-style method (grabpay, paynow) that is
\* present, otherwise payment_method_details.type, null when there is no
\* type; last4 is null.
C26_NoCardBrand ==
  ( /\ arg.fn = "extractPmDetails"
    /\ ret # NoFields
    /\ DetailsOf(arg.value).kind = "object"
    /\ Get(DetailsOf(arg.value), "card").kind # "object" )
  => LET pmd == DetailsOf(arg.value)
     IN  /\ ret.last4 = NULL
         /\ ret.brand =
              IF Get(pmd, "grabpay").kind = "object" THEN "grabpay"
              ELSE IF Get(pmd, "paynow").kind = "object" THEN "paynow"
              ELSE GetStr(pmd, "type")


\* The amount refunded that a refund event reports, and the charge it is
\* about: a refund gives its own amount and names its charge, a charge gives
\* amount_refunded and is the charge.
RefundedAmount(e) ==
  IF RefundEvents[e].type = "charge.refunded"
  THEN RefundObject(e).amount_refunded
  ELSE RefundObject(e).amount
RefundedCharge(e) ==
  IF RefundEvents[e].type = "charge.refunded"
  THEN RefundObject(e).id
  ELSE RefundObject(e).charge

\* The steps of a refund delivery from the retrieval of its payment intent
\* on; withAmount tells whether the amount handed to the RPC is looked at.
RefundSteps(withAmount) ==
  \A r \in Req :
    (variant = "log" /\ rq[r].ev \in RefundEventIds) =>
      LET e == rq[r].ev
          piFull == RefundIntents[RefundIntentId(RefundObject(e))]
      IN  /\ ( /\ Returns(r, "rf_intent")
               /\ ~eff'[r].retrieveThrew
               /\ isUuidV(piFull.metadata.order_id) )
             => /\ pc'[r] = "rf_rpc"
                /\ eff[r].rpcs = 0 /\ eff'[r].rpcs = 1
                /\ upd'[r].p_order_id = piFull.metadata.order_id
                /\ upd'[r].p_charge_id = RefundedCharge(e)
                /\ withAmount => upd'[r].p_amount_cents = RefundedAmount(e)
          /\ Returns(r, "rf_rpc")
             => /\ pc'[r] = "done"
                /\ eff'[r].rpcs = 1
                /\ \/ /\ resp'[r].status = 200
                      /\ Has(resp'[r].body, "rpc")
                      /\ \/ Is(resp'[r].body.rpc, "ok", TRUE)
                            /\ orders'[oid[r]].status = "refunded"
                         \/ Is(resp'[r].body.rpc, "skipped", TRUE)
                            /\ orders' = orders
                   \/ resp'[r].status = 500 /\ orders' = orders

\* C27: in src/unnamed/part_003, a verified refund event whose payment intent
\* carries a UUID-valid metadata.order_id leads to exactly one
\* mark_order_refunded call, with that order id, the id of the refunded
\* charge and the amount refunded; the call is answered HTTP 200, with
\* skipped:true in the result when the function is reported missing, and
\* HTTP 500 on any other RPC error.
C27_RefundCallsRpcOnce == [][RefundSteps(TRUE)]_vars


\* C28: in the first markOrderPaid of src/unnamed/part_001, the
\* recalc_order_totals call that follows a successful update ends the
\* delivery with HTTP 200 and ok:true whether it succeeds or fails, and
\* leaves every order as the update left it.
C28_RecalcFailureIgnored ==
  [][\A r \in Req :
       (variant = "p1a" /\ Returns(r, "recalc"))
       => /\ pc'[r] = "done"
          /\ resp'[r].status = 200
          /\ Is(resp'[r].body, "ok", TRUE)
          /\ ~Has(resp'[r].body, "reason")
          /\ orders' = orders]_vars

\* A delivery whose update made the order paid and whose recalc call failed
\* was answered HTTP 200 ok:true; the order is paid.
C28_Witness ==
  \E r \in Req :
    /\ variant = "p1a" /\ Done(r)
    /\ eff[r].applied = 1 /\ eff[r].recalcFailed
    /\ resp[r].status = 200 /\ Is(resp[r].body, "ok", TRUE)
    /\ oid[r] \in DOMAIN orders
    /\ orders[oid[r]].status = "paid"
    /\ orders[oid[r]].payment_status = "paid"
    /\ orders[oid[r]].paid_at # NoNum


\* C29: the order 2222..., pending and unpaid before any event, has status
\* paid exactly when it has payment_status paid, and has paid_at set whenever
\* it has either, because every transition write of a webhook sets the three
\* columns in one update.
C29_PaidColumnsTogether ==
  /\ orders[IdV4].status = "paid" <=> orders[IdV4].payment_status = "paid"
  /\ (orders[IdV4].status = "paid" \/ orders[IdV4].payment_status = "paid")
       => orders[IdV4].paid_at # NoNum


\* C30: over any sequence of webhook deliveries and confirm-session calls no
\* order is created or deleted, and a step changes an order only if it is a
\* step of a request that resolved that order's id.
C30_OnlyResolvedOrderWritten ==
  [][/\ DOMAIN orders' = DOMAIN orders
     /\ \A o \in DOMAIN orders :
          orders'[o] # orders[o]
          => \E r \in Req : pc'[r] # pc[r] /\ oid[r] = o]_vars

\* A confirm-session call has backfilled the order a webhook delivery made
\* paid, and the other order is as it was created.
C30_Witness ==
  \E r \in Req :
    /\ variant = "cfA" /\ Done(r) /\ eff[r].applied = 1
    /\ oid[r] \in DOMAIN orders
    /\ orders[oid[r]].status = "paid"
    /\ orders[oid[r]].checkout_session_id # NULL
    /\ \E o \in OrderIds \ {oid[r]} :
         \E st \in InitStatuses : orders[o] = [NewOrder EXCEPT !.status = st]


\* C31: in src/api/webhook.js, the updates of markPaidBySession and
\* upsertChargeDetails leave an order that is already paid as it is, and
\* leave the status of a completed or canceled order as it is.
C31_TerminalUntouchedByWebhookJs ==
  [][\A r \in Req :
       (variant = "wh" /\ (Returns(r, "wh_mark") \/ Returns(r, "wh_charge")))
       => \A o \in OrderIds :
            /\ orders[o].status = "paid" => orders'[o] = orders[o]
            /\ orders[o].status \in TerminalStatuses
                 => orders'[o].status = orders[o].status]_vars


\* C32: in src/api/stripe-webhook.js and in src/unnamed/part_003, a verified
\* delivery of the checkout.session.completed event whose metadata.order_id
\* is 11111111-1111-1111-1111-111111111111, not suppressed as a duplicate,
\* gets past the order-id validation: it is not answered ignored, and it has
\* asked the provider for the session on its way to the mark-paid step.
C32_ScenarioAPassesIsUuid ==
  \A r \in Req :
    ( /\ variant \in {"main", "log"}
      /\ Done(r)
      /\ rq[r].ev = "evt_cs1"
      /\ ~Is(resp[r].body, "reason", "duplicate_event") )
    => /\ ~Is(resp[r].body, "ignored", TRUE)
       /\ eff[r].retrievals >= 1


\* C33: in src/unnamed/part_003, a delivery answered duplicate_event has
\* another delivery of the same event whose handling did not fail: one still
\* being handled, or one answered HTTP 200 that was not itself suppressed.  A
\* redelivery after an HTTP 500 is therefore handled again.
C33_DuplicateOnlyAfterHandled ==
  \A r \in Req :
    (variant = "log" /\ Done(r) /\ Reason(r) = "duplicate_event")
    => \E q \in Req \ {r} :
         /\ rq[q].ev = rq[r].ev
         /\ pc[q] # "idle"
         /\ Done(q) => resp[q].status = 200 /\ Reason(q) # "duplicate_event"


\* C34: in the first markOrderPaid of src/unnamed/part_001, a delivery is
\* answered with the plain result {ok:true} (no reason) only if its own
\* update changed the order to paid.
C34_PlainOkMeansApplied ==
  \A r \in Req :
    ( /\ variant = "p1a"
      /\ Done(r)
      /\ Is(resp[r].body, "ok", TRUE)
      /\ ~Has(resp[r].body, "reason") )
    => eff[r].applied = 1


\* C35: the update of backfillStripeIds never changes a checkout_session_id or
\* payment_intent_id that the order holds when the update is applied, whatever
\* other calls have written since the backfill read the order.
C35_BackfillKeepsStoredIds ==
  [][\A r \in Req :
       Returns(r, "cf_bf_update")
       => \A o \in OrderIds :
            \A c \in {"checkout_session_id", "payment_intent_id"} :
              ~Falsy(orders[o][c]) => orders'[o][c] = orders[o][c]]_vars


\* C36: in src/unnamed/part_003, a delivery of a refund event is answered
\* with refunded:true only when its mark_order_refunded RPC returned without
\* error; an RPC skipped as not deployed is not reported as a refund.
C36_RefundedOnlyWhenApplied ==
  \A r \in Req :
    (variant = "log" /\ Done(r) /\ Is(resp[r].body, "refunded", TRUE))
    => /\ Has(resp[r].body, "rpc")
       /\ Is(resp[r].body.rpc, "ok", TRUE)
       /\ ~Has(resp[r].body.rpc, "skipped")


\* C37: in src/api/webhook.js, a step in which a delivery issues an update
\* against the orders table is keyed by an order id that is present and of
\* UUID form.
C37_UpdateOnlyForValidId ==
  [][\A r \in Req :
       (variant = "wh" /\ eff'[r].updates > eff[r].updates)
       => oid'[r] # Empty /\ isUuid(oid'[r])]_vars

====
